---- MODULE Spec2Model ----
(***************************************************************************)
(* Verification model of the PIO C library core in src/clib/pioc.c:        *)
(* decomposition construction (PIOc_InitDecomp), decomposition ids         *)
(* (pio_next_ioid), and the async message protocol between computational   *)
(* components and the I/O ranks (PIOc_setframe, PIOc_advanceframe,         *)
(* PIOc_free_iosystem, PIOc_init_async).                                   *)
(*                                                                         *)
(* Sixteen specifications share this module:                               *)
(*   SpecSort  - the map copy / sort step of PIOc_InitDecomp on one rank   *)
(*   Spec      - iosystems, collective PIOc_InitDecomp, ioid assignment    *)
(*   SpecDesc  - one iosystem, PIOc_InitDecomp with any of several maps    *)
(*   SpecAsync - the async tag / parameter protocol and the dispatcher     *)
(*   SpecArgs  - the init functions and PIOc_InitDecomp with any arguments *)
(*   SpecCheck - the early returns of PIOc_InitDecomp                      *)
(*   SpecErr   - the error handlers of the process and of its iosystems    *)
(*   SpecHandlers - the handlers of two iosystems and the library default  *)
(*   SpecLife  - iosystems and decompositions made, queried and freed      *)
(*   SpecMap   - PIOc_init_decomp (0-based maps) beside PIOc_InitDecomp    *)
(*   SpecFrame - the record number of the variables of open files          *)
(*   SpecBuf   - the multi-variable write buffer and its flushes           *)
(*   SpecBc    - PIOc_InitDecomp_bc, decompositions made from blocks       *)
(*   SpecMemory - the arrays PIOc_InitDecomp reads and writes on one rank  *)
(*   SpecFail  - the async protocol of one component with failing MPI calls*)
(*   SpecExit  - iosystems freed once, twice and by another component      *)
(***************************************************************************)
EXTENDS Integers, Sequences, FiniteSets, TLC

(***************************************************************************)
(* Bounds of the model                                                     *)
(***************************************************************************)
\* longest compmap given to the sort step
MaxLen == 4
\* largest global offset in a compmap of the sort step
MaxOff == 2
\* number of MPI processes in the world communicator
NumRanks == 3
\* most iosystems initialised in one run
MaxIosys == 2
\* most collective PIOc_InitDecomp calls in one run
MaxDecomps == 2
\* async protocol: I/O processes, components, processes per component and
\* calls per component
NumIoProcs == 2
NumComps == 2
CompSize == 2
MaxOps == 2
\* most files open at a time
MaxFiles == 2
\* variables of a file
NumVars == 2
\* largest record number a frame call may leave
MaxRecord == 3
\* most messages a component leader sends for frame calls
MaxFrameCalls == 4
\* arrays a write buffer entry holds before it is flushed
MaxArrays == 3
\* most arrays written through the write buffers in one run
MaxWritten == 4

(***************************************************************************)
(* Program constants                                                       *)
(***************************************************************************)
PIO_REARR_BOX == 1
PIO_REARR_SUBSET == 2
PIO_NOERR == 0
PIO_EBADREARR == -502
PIO_INTERNAL_ERROR == -51
PIO_BCAST_ERROR == -52
PIO_RETURN_ERROR == -53
PIO_DEFAULT == -1
PIO_EBADID == -33
PIO_EINVAL == -36
PIO_EIO == -68
PIO_REARR_COMM_COLL == 1
PIO_REARR_COMM_FC_2D_DISABLE == 3
PIO_REARR_COMM_UNLIMITED_PEND_REQ == -1
\* MPI_ROOT / MPI_PROC_NULL / the zero a calloc'ed role field holds
MPI_ROOT == "MPI_ROOT"
MPI_PROC_NULL == "MPI_PROC_NULL"
NO_ROLE == "0"

(***************************************************************************)
(* State.  The three parts of the model have their own variables; a        *)
(* specification moves one part and leaves the others as they start.       *)
(***************************************************************************)
\* Part 1: one process inside the map copy of PIOc_InitDecomp
VARIABLES
    s_compmap,  \* the compmap argument
    s_iodesc,   \* the fields of iodesc the map copy sets
    s_pc        \* "call" before the copy, "done" after, "off" when not used

sortVars == <<s_compmap, s_iodesc, s_pc>>

\* Part 2: the processes of the world, their iosystems and decompositions
VARIABLES
    iosystem_list,   \* [rank -> [iosysid -> iosystem_desc_t]] (partial)
    comms,           \* iosysid -> world ranks of the iosystem's comms
    pio_next_ioid,   \* [rank -> int], the per-process id counter
    iodesc_list,     \* [rank -> sequence of io_desc_t], oldest first
    in_handler,      \* [rank -> BOOLEAN], inside pio_msg_handler2
    ret,             \* [rank -> return code of the rank's last call]
    ncalls,          \* number of collective PIOc_InitDecomp calls so far
    default_error_handler,  \* [rank -> the process's default handler]
    mpi_sends,       \* [rank -> number of MPI_Send calls the rank made]
    ioidp,           \* [rank -> the caller's *ioidp, 0 while never written]
    aborted,         \* [rank -> BOOLEAN], the process called piodie
    outp             \* [rank -> what the rank's last call stored through its
                     \*  result pointer or returned as a value, 0 at start]

mainVars == <<iosystem_list, comms, pio_next_ioid, iodesc_list, in_handler,
              ret, ncalls, default_error_handler, mpi_sends, ioidp, aborted,
              outp>>

\* Part 3: the processes of an async run and the messages in flight
VARIABLES
    c_pc,      \* [comp, p -> position of the computational process]
    c_done,    \* [comp, p -> number of calls that returned]
    c_ret,     \* [comp, p -> return code of the last call]
    c_record,  \* [comp, p -> vdesc->record of the component's variable]
    prog,      \* [comp -> the collective calls of the component, in order]
    tagq,      \* [comp -> tags sent on union_comm to ioroot, not yet received]
    parq,      \* [comp, io -> parameters broadcast on the intercomm]
    errq,      \* [comp, member -> mpierr values broadcast on my_comm]
    sent,      \* [comp -> (comp rank, tag) of every MPI_Send so far]
    h_pc,      \* [io -> position of the I/O process]
    h_msg,     \* [io -> the call being served: comp, tag]
    ioq,       \* [io -> (tag, comp) broadcast by io rank 0 on io_comm]
    h_record,  \* [io, comp -> vdesc->record of the component's variable]
    recvd,     \* [comp -> tags the dispatcher has received from comp]
    exec,      \* [io, comp -> tags executed for comp, in order]
    c_mpierr   \* [comp, p -> the call's mpierr on the computational process]

asyncVars == <<c_pc, c_done, c_ret, c_record, prog, tagq, parq, errq, sent,
               h_pc, h_msg, ioq, h_record, recvd, exec, c_mpierr>>

\* Part 4: the open files of the processes and the write buffer of one of them
VARIABLES
    file_list,   \* [rank -> [ncid -> file_desc_t]]
    wmb,         \* [ncid -> [ioid -> wmulti_buffer]] of process BufRank
    written,     \* the arrays handed to the file driver, in the order of the calls
    appended     \* the arrays handed to the write buffer, in the order of the calls

fileVars == <<file_list, wmb, written, appended>>

vars == <<sortVars, mainVars, asyncVars, fileVars>>

(***************************************************************************)
(* Part 1: the map copy and sort of PIOc_InitDecomp (pioc.c 597-644)       *)
(***************************************************************************)
\* all compmaps of length 0..n with offsets 0..off (0 = do not transfer)
CompMaps(n, off) == UNION {[1..k -> 0..off] : k \in 0..n}

\* compare() of pioc.c: orders two sort_map entries by their map field only
compare_reversed(a, b) ==
    IF a.map < b.map THEN 1 ELSE IF a.map > b.map THEN -1 ELSE 0

compare(a, b) ==
    IF a.map < b.map THEN -1 ELSE IF a.map > b.map THEN 1 ELSE 0

\* the loop that decides iodesc->needssort (0-based m of the source is m-1)
NeedsSort_nozero(compmap) ==
    \E m \in 2..Len(compmap) : compmap[m] < compmap[m-1]

NeedsSort(compmap) ==
    \E m \in 2..Len(compmap) : compmap[m] > 0 /\ compmap[m] < compmap[m-1]

\* tmpsort[m].remap = m; tmpsort[m].map = compmap[m]  (remap is 0-based)
TmpSort_first_slot(compmap) ==
    [m \in 1..Len(compmap) |-> [remap |-> 0, map |-> compmap[m]]]

TmpSort(compmap) ==
    [m \in 1..Len(compmap) |-> [remap |-> m - 1, map |-> compmap[m]]]

\* qsort(tmpsort, maplen, ..., compare): the C library promises an array
\* ordered by compare and nothing about the order of entries that compare
\* equal, so every arrangement of tmpsort ordered by compare is an outcome.
QsortOutcomes(tmpsort) ==
    LET n == Len(tmpsort)
        arr == {p \in [1..n -> 1..n] : \A i, j \in 1..n : i # j => p[i] # p[j]}
    IN {[k \in 1..n |-> tmpsort[p[k]]] : p \in
           {q \in arr : \A i, j \in 1..n :
                i < j => compare(tmpsort[q[i]], tmpsort[q[j]]) <= 0}}

\* the iodesc fields set by lines 597-644 once qsort returned `sorted`
SortedDesc(compmap, sorted) ==
    [maplen    |-> Len(compmap),
     needssort |-> TRUE,
     remapNull |-> FALSE,
     remap     |-> [m \in 1..Len(compmap) |-> sorted[m].remap],
     map       |-> [m \in 1..Len(compmap) |-> compmap[sorted[m].remap + 1]]]

UnsortedDesc(compmap) ==
    [maplen    |-> Len(compmap),
     needssort |-> FALSE,
     remapNull |-> TRUE,
     remap     |-> <<>>,
     map       |-> [m \in 1..Len(compmap) |-> compmap[m]]]

\* every (needssort, remap, map) the copy step can leave in the iodesc
MapCopyOutcomes(compmap) ==
    IF NeedsSort(compmap)
    THEN {SortedDesc(compmap, s) : s \in QsortOutcomes(TmpSort(compmap))}
    ELSE {UnsortedDesc(compmap)}

NoDesc == [maplen |-> -1, needssort |-> FALSE, remapNull |-> TRUE,
           remap |-> <<>>, map |-> <<>>]

SortInit ==
    /\ s_compmap \in CompMaps(MaxLen, MaxOff)
    /\ s_iodesc = NoDesc
    /\ s_pc = "call"

\* one rank runs lines 597-644 on its compmap
CopyMap ==
    /\ s_pc = "call"
    /\ s_iodesc' \in MapCopyOutcomes(s_compmap)
    /\ s_pc' = "done"
    /\ UNCHANGED s_compmap
    /\ UNCHANGED <<mainVars, asyncVars, fileVars>>

(***************************************************************************)
(* Properties of the map copy and sort                                     *)
(***************************************************************************)
Nondecreasing(s) == \A k \in 2..Len(s) : s[k-1] <= s[k]

\* map'[k] = compmap[remap[k]] for every slot k (remap holds 0-based slots)
RemapRelation(compmap, d) ==
    /\ Len(d.remap) = Len(compmap)
    /\ Len(d.map) = Len(compmap)
    /\ \A k \in 1..Len(compmap) :
          /\ d.remap[k] \in 0..(Len(compmap) - 1)
          /\ d.map[k] = compmap[d.remap[k] + 1]

RemapAbsent(compmap, d) == d.remapNull /\ d.remap = <<>> /\ d.map = compmap

OutOfOrder(compmap) ==
    \E k \in 1..(Len(compmap) - 1) :
        compmap[k + 1] > 0 /\ compmap[k + 1] < compmap[k]

\* remap is increasing inside every run of equal map' values
StableRemap(d) ==
    \A i, j \in 1..Len(d.map) :
        (i < j /\ d.map[i] = d.map[j]) => d.remap[i] < d.remap[j]

IsPermutation(remap, n) ==
    /\ Len(remap) = n
    /\ \A v \in 0..(n - 1) : \E k \in 1..n : remap[k] = v

\* C4 as stated: needs_sort is set exactly for an out-of-order map and the
\* sort is stable.
C4_Original ==
    s_pc = "done" =>
        /\ s_iodesc.needssort <=> OutOfOrder(s_compmap)
        /\ s_iodesc.needssort => StableRemap(s_iodesc)

\* C4 amended: needs_sort is set exactly when some k >= 1 has map[k] > 0 and
\* map[k] < map[k-1]; the sort then orders the slots by global offset (remap
\* is a permutation of the slots, slots with a smaller offset come first),
\* but the relative order of slots with equal offsets is not fixed.
C4_SortOrder ==
    s_pc = "done" =>
        /\ s_iodesc.needssort <=> OutOfOrder(s_compmap)
        /\ s_iodesc.needssort =>
              /\ IsPermutation(s_iodesc.remap, Len(s_compmap))
              /\ \A i, j \in 1..Len(s_compmap) :
                    s_compmap[s_iodesc.remap[i] + 1] < s_compmap[s_iodesc.remap[j] + 1]
                        => i < j

C4_Witness ==
    /\ s_pc = "done"
    /\ s_iodesc.needssort
    /\ \E i, j \in 1..Len(s_iodesc.map) : i # j /\ s_iodesc.map[i] = s_iodesc.map[j]

(***************************************************************************)
(* Part 2: iosystems and collective PIOc_InitDecomp                        *)
(*                                                                         *)
(* Every MPI process (world rank) owns its copy of the library globals:    *)
(* the iosystem list, the iodesc list and pio_next_ioid.  A collective     *)
(* call is one step taken by all the ranks of the communicator it is       *)
(* collective over.                                                        *)
(***************************************************************************)
World == 0..(NumRanks - 1)

Range(f) == {f[x] : x \in DOMAIN f}

\* position (0-based) of world rank r in the rank list l, -1 if absent
IndexOf(l, r) ==
    IF \E i \in 1..Len(l) : l[i] = r
    THEN (CHOOSE i \in 1..Len(l) : l[i] = r /\ \A j \in 1..(i - 1) : l[j] # r) - 1
    ELSE -1

\* int pio_next_ioid = 512;
pio_next_ioid_init == 512

\* int default_error_handler = PIO_INTERNAL_ERROR;
default_error_handler_init == PIO_INTERNAL_ERROR

\* the C operator %: the quotient truncates toward zero, so the remainder
\* has the sign of the dividend (b > 0 here)
CRem(a, b) == IF a >= 0 THEN a % b ELSE -((-a) % b)

\* ios->ioranks[i] = (base + i * ustride) % ios->num_comptasks
SyncIoRanks_from_zero(num_iotasks, stride, base, num_comptasks) ==
    [i \in 1..num_iotasks |-> CRem((i - 1) * stride, num_comptasks)]

SyncIoRanks(num_iotasks, stride, base, num_comptasks) ==
    [i \in 1..num_iotasks |-> CRem(base + (i - 1) * stride, num_comptasks)]

\* MPI_Group_incl(compgroup, num_iotasks, ioranks, &iogroup) needs valid
\* and distinct ranks of the group
MPI_Group_incl_ok(ranks, size) ==
    /\ \A i \in 1..Len(ranks) : ranks[i] \in 0..(size - 1)
    /\ \A i, j \in 1..Len(ranks) : i # j => ranks[i] # ranks[j]

\* rearr_opts of a new iosystem: calloc() zeroes the structure, then
\* comm_type and fcd are assigned
rearr_opts_init ==
    [comm_type |-> PIO_REARR_COMM_COLL,
     fcd       |-> PIO_REARR_COMM_FC_2D_DISABLE,
     comp2io   |-> [hs |-> FALSE, isend |-> FALSE, max_pend_req |-> 0],
     io2comp   |-> [hs |-> FALSE, isend |-> FALSE, max_pend_req |-> 0]]

\* the check of the inputs of PIOc_Init_Intracomm
Init_Intracomm_valid(num_iotasks, stride, num_comptasks) ==
    ~(num_iotasks < 1 \/ num_iotasks * stride > num_comptasks)

\* the iosystem_desc_t PIOc_Init_Intracomm builds on the process whose
\* rank in comp_comm is comp_rank
Init_Intracomm_desc(comp_rank, num_comptasks, num_iotasks, stride, base, rearr, error_handler) ==
    LET ioranks == SyncIoRanks(num_iotasks, stride, base, num_comptasks)
        ioproc  == \E i \in 1..num_iotasks : ioranks[i] = comp_rank
    IN [registered         |-> TRUE,
        async              |-> FALSE,
        error_handler      |-> error_handler,
        rearr_opts         |-> rearr_opts_init,
        default_rearranger |-> rearr,
        num_iotasks        |-> num_iotasks,
        num_comptasks      |-> num_comptasks,
        num_uniontasks     |-> num_comptasks,
        comp_rank          |-> comp_rank,
        compproc           |-> TRUE,
        compranks          |-> [i \in 1..num_comptasks |-> i - 1],
        compmaster         |-> IF comp_rank = 0 THEN MPI_ROOT ELSE NO_ROLE,
        ioranks            |-> ioranks,
        ioproc             |-> ioproc,
        ioroot             |-> ioranks[1],
        comproot           |-> 0,
        iomaster           |-> IF comp_rank = ioranks[1] THEN MPI_ROOT ELSE NO_ROLE,
        io_rank            |-> IF ioproc THEN IndexOf(ioranks, comp_rank) ELSE -1,
        union_rank         |-> comp_rank,
        in_union           |-> TRUE,
        intercomm_tag      |-> -1,
        intercomm_remote   |-> -1,
        comp_idx           |-> 0]

\* proc_list_union: the processes of the union comm of a component, in
\* union rank order
proc_list_union_comp_first(io_list, comp_list) == comp_list \o io_list

proc_list_union(io_list, comp_list) == io_list \o comp_list

\* iomaster = !io_rank ? MPI_ROOT : MPI_PROC_NULL, on an I/O process
iomaster_everyone(io_rank) == MPI_ROOT

iomaster(io_rank) == IF io_rank = 0 THEN MPI_ROOT ELSE MPI_PROC_NULL

\* my_iosys->compproc = !in_io
compproc_always(in_io) == TRUE

compproc(in_io) == ~in_io

\* the iosystem_desc_t PIOc_init_async builds for component cmp (1-based
\* here) on world rank my_rank; io_list and procs[cmp] hold world ranks
init_async_desc(my_rank, io_list, procs, cmp, rearranger, error_handler) ==
    LET num_io_procs == Len(io_list)
        in_io        == \E p \in 1..num_io_procs : io_list[p] = my_rank
        io_rank      == IF in_io THEN IndexOf(io_list, my_rank) ELSE -1
        in_cmp       == \E p \in 1..Len(procs[cmp]) : procs[cmp][p] = my_rank
        union_list   == proc_list_union(io_list, procs[cmp])
    IN [registered         |-> TRUE,
        async              |-> TRUE,
        error_handler      |-> error_handler,
        rearr_opts         |-> rearr_opts_init,
        default_rearranger |-> rearranger,
        num_iotasks        |-> num_io_procs,
        num_comptasks      |-> Len(procs[cmp]),
        num_uniontasks     |-> Len(procs[cmp]) + num_io_procs,
        comp_rank          |-> IF in_cmp THEN IndexOf(procs[cmp], my_rank) ELSE 0,
        compproc           |-> compproc(in_io),
        compranks          |-> [p \in 1..Len(procs[cmp]) |-> num_io_procs + p - 1],
        compmaster         |-> IF in_cmp
                               THEN (IF IndexOf(procs[cmp], my_rank) # 0
                                     THEN MPI_PROC_NULL ELSE MPI_ROOT)
                               ELSE NO_ROLE,
        ioranks            |-> [i \in 1..num_io_procs |-> i - 1],
        ioproc             |-> in_io,
        ioroot             |-> 0,
        comproot           |-> num_io_procs,
        iomaster           |-> IF in_io THEN iomaster(io_rank) ELSE NO_ROLE,
        io_rank            |-> IF in_io THEN io_rank ELSE 0,
        union_rank         |-> IF in_io \/ in_cmp THEN IndexOf(union_list, my_rank) ELSE 0,
        in_union           |-> in_io \/ in_cmp,
        intercomm_tag      |-> IF in_io \/ in_cmp THEN cmp - 1 ELSE -1,
        intercomm_remote   |-> IF in_io THEN num_io_procs
                               ELSE IF in_cmp THEN 0 ELSE -1,
        comp_idx           |-> IF in_io THEN cmp - 1 ELSE 0]

\* what pio_get_iosystem_from_id finds on a process that never registered
\* the id: nothing
NullIosys ==
    [registered |-> FALSE, async |-> FALSE, error_handler |-> 0,
     rearr_opts |-> rearr_opts_init,
     default_rearranger |-> 0, num_iotasks |-> 0, num_comptasks |-> 0,
     num_uniontasks |-> 0, comp_rank |-> 0, compproc |-> FALSE,
     compranks |-> <<>>, compmaster |-> NO_ROLE, ioranks |-> <<>>,
     ioproc |-> FALSE, ioroot |-> 0, comproot |-> 0, iomaster |-> NO_ROLE,
     io_rank |-> 0, union_rank |-> 0, in_union |-> FALSE,
     intercomm_tag |-> -1, intercomm_remote |-> -1, comp_idx |-> 0]

\* the ids handed out so far (pio_add_to_iosystem_list)
IosysIds == DOMAIN comms

NextIosysId == Cardinality(IosysIds) + 1

MainInit ==
    /\ iosystem_list = [r \in World |-> <<>>]
    /\ comms = <<>>
    /\ pio_next_ioid = [r \in World |-> pio_next_ioid_init]
    /\ iodesc_list = [r \in World |-> <<>>]
    /\ in_handler = [r \in World |-> FALSE]
    /\ ret = [r \in World |-> PIO_NOERR]
    /\ ncalls = 0
    /\ default_error_handler = [r \in World |-> default_error_handler_init]
    /\ mpi_sends = [r \in World |-> 0]
    /\ ioidp = [r \in World |-> 0]
    /\ aborted = [r \in World |-> FALSE]
    /\ outp = [r \in World |-> 0]

\* PIOc_Init_Intracomm, collective over comp_comm (a list of world ranks in
\* comp_comm rank order)
Init_Intracomm(comp_comm, num_iotasks, stride, base, rearr) ==
    LET num_comptasks == Len(comp_comm)
        id == NextIosysId
    IN /\ Cardinality(IosysIds) < MaxIosys
       /\ \A r \in Range(comp_comm) : ~in_handler[r]
       /\ Init_Intracomm_valid(num_iotasks, stride, num_comptasks)
       /\ MPI_Group_incl_ok(SyncIoRanks(num_iotasks, stride, base, num_comptasks),
                            num_comptasks)
       /\ iosystem_list' =
            [r \in World |->
                IF r \in Range(comp_comm)
                THEN Append(iosystem_list[r],
                            Init_Intracomm_desc(IndexOf(comp_comm, r), num_comptasks,
                                                num_iotasks, stride, base, rearr,
                                                default_error_handler[r]))
                ELSE Append(iosystem_list[r], NullIosys)]
       /\ comms' = Append(comms,
            [async   |-> FALSE,
             my_comm |-> comp_comm,
             comp    |-> comp_comm,
             io      |-> [i \in 1..num_iotasks |->
                            comp_comm[SyncIoRanks(num_iotasks, stride, base,
                                                  num_comptasks)[i] + 1]]])
       /\ ret' = [r \in World |-> IF r \in Range(comp_comm) THEN PIO_NOERR ELSE ret[r]]
       /\ UNCHANGED <<pio_next_ioid, iodesc_list, in_handler, ncalls,
                      default_error_handler, mpi_sends, ioidp, aborted, outp>>
       /\ UNCHANGED <<sortVars, asyncVars, fileVars>>

\* the MPI_Group_incl calls of PIOc_init_async: the I/O group, the group of
\* every component and every union group
init_async_groups_ok(io_list, procs) ==
    /\ MPI_Group_incl_ok(io_list, NumRanks)
    /\ \A cmp \in 1..Len(procs) :
          /\ MPI_Group_incl_ok(procs[cmp], NumRanks)
          /\ MPI_Group_incl_ok(proc_list_union(io_list, procs[cmp]), NumRanks)

\* PIOc_init_async, collective over the world: one iosystem per component;
\* the processes of io_list then enter pio_msg_handler2 and stay there
init_async(io_list, procs, rearranger) ==
    LET component_count == Len(procs)
        first == Cardinality(IosysIds)
    IN /\ first + component_count <= MaxIosys
       /\ \A r \in World : ~in_handler[r]
       /\ ~(Len(io_list) < 1 \/ component_count < 1 \/
            (rearranger # PIO_REARR_BOX /\ rearranger # PIO_REARR_SUBSET))
       /\ init_async_groups_ok(io_list, procs)
       /\ iosystem_list' =
            [r \in World |->
                iosystem_list[r] \o
                [cmp \in 1..component_count |->
                    init_async_desc(r, io_list, procs, cmp, rearranger,
                                    default_error_handler[r])]]
       /\ comms' = comms \o
            [cmp \in 1..component_count |->
                [async   |-> TRUE,
                 my_comm |-> proc_list_union(io_list, procs[cmp]),
                 comp    |-> procs[cmp],
                 io      |-> io_list]]
       /\ in_handler' = [r \in World |-> r \in Range(io_list)]
       /\ ret' = [r \in World |-> IF r \in Range(io_list) THEN ret[r] ELSE PIO_NOERR]
       /\ UNCHANGED <<pio_next_ioid, iodesc_list, ncalls,
                      default_error_handler, mpi_sends, ioidp, aborted, outp>>
       /\ UNCHANGED <<sortVars, asyncVars, fileVars>>

\* pio_err(ios, file, err, __FILE__, __LINE__): the caller returns what it
\* returns, the error code handed in
pio_err(err) == err

\* check_mpi(ios, file, mpierr, __FILE__, __LINE__) for a failed MPI call
check_mpi(mpierr) == PIO_EIO

\* an initialisation call that returns err from a check, on the processes
\* of callers: nothing was registered
Init_fail(callers, err) ==
    /\ \A r \in callers : ~in_handler[r]
    /\ ret' = [r \in World |-> IF r \in callers THEN err ELSE ret[r]]
    /\ UNCHANGED <<iosystem_list, comms, pio_next_ioid, iodesc_list, in_handler,
                   ncalls, default_error_handler, mpi_sends, ioidp, aborted, outp>>
    /\ UNCHANGED <<sortVars, asyncVars, fileVars>>

\* PIOc_Init_Intracomm with any arguments (iosysidp: is the pointer given):
\* the check of the inputs, the I/O group, the registration
PIOc_Init_Intracomm(comp_comm, num_iotasks, stride, base, rearr, iosysidp) ==
    IF ~iosysidp \/ ~Init_Intracomm_valid(num_iotasks, stride, Len(comp_comm))
    THEN Init_fail(Range(comp_comm), pio_err(PIO_EINVAL))
    ELSE IF ~MPI_Group_incl_ok(SyncIoRanks(num_iotasks, stride, base, Len(comp_comm)),
                               Len(comp_comm))
         THEN Init_fail(Range(comp_comm), check_mpi(1))
         ELSE Init_Intracomm(comp_comm, num_iotasks, stride, base, rearr)

\* PIOc_init_async with any rearranger and iosysidp
PIOc_init_async(io_list, procs, rearranger, iosysidp) ==
    IF Len(io_list) < 1 \/ Len(procs) < 1 \/ ~iosysidp \/
       (rearranger # PIO_REARR_BOX /\ rearranger # PIO_REARR_SUBSET)
    THEN Init_fail(World, pio_err(PIO_EINVAL))
    ELSE IF ~init_async_groups_ok(io_list, procs)
         THEN Init_fail(World, check_mpi(1))
         ELSE init_async(io_list, procs, rearranger)

\* has the map two equal nonzero entries
HasDuplicate(map) ==
    \E i, j \in 1..Len(map) : i < j /\ map[i] # 0 /\ map[i] = map[j]

\* run_unique_check(ios->comp_comm, maplen, tmpmap, &iodesc->readonly): the
\* collective duplicate scan over the maps of the ranks of comp_comm
run_unique_check(maps) == \E r \in DOMAIN maps : HasDuplicate(maps[r])

\* CalcStartandCount(): the number of I/O tasks the box layout really uses
CalcStartandCount_num_aiotasks(num_iotasks) == 1..num_iotasks

\* MPI_Bcast(&(iodesc->num_aiotasks), 1, MPI_INT, ios->ioroot, ios->my_comm)
\* of the box branch: every process leaves with the I/O root's value
Bcast_num_aiotasks_skipped(local, root_value) == local

Bcast_num_aiotasks(local, root_value) == root_value

\* malloc_iodesc(): a zeroed io_desc_t
malloc_iodesc(ndims) ==
    [ioid |-> 0, ndims |-> ndims, dimlen |-> <<>>, rearranger |-> 0,
     readonly |-> FALSE, num_aiotasks |-> 0, maplen |-> 0,
     needssort |-> FALSE, remapNull |-> TRUE, remap |-> <<>>, map |-> <<>>,
     firstregion |-> "unset", iosysid |-> 0, call |-> 0]

\* the rearranger PIOc_InitDecomp stores: *rearranger, or the iosystem
\* default when the pointer is NULL (0 stands for the NULL pointer)
SetRearranger_always_default(ios, rearranger) == ios.default_rearranger

SetRearranger(ios, rearranger) ==
    IF rearranger = 0 THEN ios.default_rearranger ELSE rearranger

\* iodesc->readonly after the rearranger branch of PIOc_InitDecomp on a
\* process with iosystem ios: only the subset branch scans for duplicates,
\* and only on processes of the computation component
ReadonlyAfter(ios, rearr, old, comp_maps) ==
    IF rearr = PIO_REARR_SUBSET /\ ios.compproc
    THEN run_unique_check(comp_maps)
    ELSE old

\* where iodesc->firstregion->start/count come from: in the box branch an
\* I/O process copies the caller's iostart/iocount when both are given and
\* calls CalcStartandCount otherwise; the subset branch hands neither array
\* to subset_rearrange_create, which computes the region itself
FirstRegion(ios, rearr, ioregion) ==
    IF rearr = PIO_REARR_SUBSET
    THEN "computed"
    ELSE IF ~ios.ioproc
         THEN "unset"
         ELSE IF ioregion THEN "iostart" ELSE "computed"

\* the value of pio_next_ioid that "iodesc->ioid = pio_next_ioid++" reads on
\* rank r: in async mode the I/O root's counter, broadcast over my_comm
IoidSource(c, r) == IF c.async THEN c.io[1] ELSE r

\* the compmap PIOc_InitDecomp sees on rank r: its own argument, or on an
\* async I/O process the leader's map, received over the intercomm
CompmapOn(c, compmaps, r) ==
    IF c.async /\ r \in Range(c.io) THEN compmaps[c.comp[1]] ELSE compmaps[r]

\* pio_get_iosystem_from_id(iosysid) on process r
pio_get_iosystem_from_id(r, iosysid) ==
    IF iosysid \in 1..Len(iosystem_list[r])
    THEN iosystem_list[r][iosysid]
    ELSE NullIosys

\* which of the pointer arguments of PIOc_InitDecomp are given
AllPresent == [gdimlen |-> TRUE, compmap |-> TRUE, ioidp |-> TRUE]

\* the checks PIOc_InitDecomp makes before it touches anything: the
\* iosystem is known, the pointers are there, every dimension is positive.
\* ios is what pio_get_iosystem_from_id returned.
InitDecomp_check_any_dimlen(ios, present, gdimlen) ==
    IF ~ios.registered THEN pio_err(PIO_EBADID)
    ELSE IF ~present.gdimlen \/ ~present.compmap \/ ~present.ioidp
         THEN pio_err(PIO_EINVAL)
         ELSE PIO_NOERR

InitDecomp_check(ios, present, gdimlen) ==
    IF ~ios.registered THEN pio_err(PIO_EBADID)
    ELSE IF ~present.gdimlen \/ ~present.compmap \/ ~present.ioidp
         THEN pio_err(PIO_EINVAL)
         ELSE IF \E i \in 1..Len(gdimlen) : gdimlen[i] <= 0
              THEN pio_err(PIO_EINVAL)
              ELSE PIO_NOERR

\* PIOc_InitDecomp on process r with arguments its checks refuse: the
\* function returns from the check
InitDecomp_invalid(r, iosysid, gdimlen, present) ==
    LET err == InitDecomp_check(pio_get_iosystem_from_id(r, iosysid), present, gdimlen)
    IN /\ ~in_handler[r]
       /\ err # PIO_NOERR
       /\ ret' = [ret EXCEPT ![r] = err]
       /\ UNCHANGED <<iosystem_list, comms, pio_next_ioid, iodesc_list, in_handler,
                      ncalls, default_error_handler, mpi_sends, ioidp, aborted, outp>>
       /\ UNCHANGED <<sortVars, asyncVars, fileVars>>

\* PIOc_InitDecomp, collective over ios->my_comm.  compmaps gives the map
\* argument of every calling process; rearranger is 0 for a NULL pointer;
\* ioregion tells whether iostart and iocount are both given.
InitDecomp(iosysid, gdimlen, compmaps, rearranger, ioregion) ==
    LET c       == comms[iosysid]
        members == Range(c.my_comm)
        ios(r)  == iosystem_list[r][iosysid]
        badrearr == c.async /\ rearranger # 0 /\
                    rearranger # ios(c.my_comm[1]).default_rearranger
        rearr   == SetRearranger(ios(c.my_comm[1]), rearranger)
        compMaps == [r \in Range(c.comp) |-> compmaps[r]]
    IN /\ iosysid \in IosysIds
       /\ ncalls < MaxDecomps
       /\ \A r \in members : in_handler[r] = (c.async /\ r \in Range(c.io))
       /\ \A r \in members :
             InitDecomp_check(pio_get_iosystem_from_id(r, iosysid), AllPresent,
                              gdimlen) = PIO_NOERR
       /\ ncalls' = ncalls + 1
       /\ mpi_sends' =
            [r \in World |->
                IF c.async /\ r \in Range(c.comp) /\ ios(r).compmaster = MPI_ROOT
                THEN mpi_sends[r] + 1
                ELSE mpi_sends[r]]
       /\ IF badrearr
          THEN /\ ret' = [r \in World |->
                            IF r \in members THEN pio_err(PIO_EBADREARR) ELSE ret[r]]
               /\ UNCHANGED <<pio_next_ioid, iodesc_list, ioidp>>
          ELSE \E copies \in [members -> UNION {MapCopyOutcomes(CompmapOn(c, compmaps, r)) : r \in members}],
                  aio \in (IF rearr = PIO_REARR_SUBSET
                           THEN {ios(c.my_comm[1]).num_iotasks}
                           ELSE IF ioregion
                                THEN {ios(c.my_comm[1]).num_iotasks}
                                ELSE CalcStartandCount_num_aiotasks(ios(c.my_comm[1]).num_iotasks)) :
               /\ \A r \in members : copies[r] \in MapCopyOutcomes(CompmapOn(c, compmaps, r))
               /\ iodesc_list' =
                    [r \in World |->
                        IF r \in members
                        THEN Append(iodesc_list[r],
                               [malloc_iodesc(Len(gdimlen)) EXCEPT
                                  !.maplen = copies[r].maplen,
                                  !.needssort = copies[r].needssort,
                                  !.remapNull = copies[r].remapNull,
                                  !.remap = copies[r].remap,
                                  !.map = copies[r].map,
                                  !.dimlen = gdimlen,
                                  !.rearranger = rearr,
                                  !.readonly = ReadonlyAfter(ios(r), rearr, @, compMaps),
                                  !.num_aiotasks =
                                      IF rearr = PIO_REARR_SUBSET THEN aio
                                      ELSE Bcast_num_aiotasks(
                                              IF ios(r).ioproc THEN aio ELSE @, aio),
                                  !.firstregion = FirstRegion(ios(r), rearr, ioregion),
                                  !.ioid = pio_next_ioid[IoidSource(c, r)],
                                  !.iosysid = iosysid,
                                  !.call = ncalls + 1])
                        ELSE iodesc_list[r]]
               /\ pio_next_ioid' =
                    [r \in World |->
                        IF r \in members
                        THEN pio_next_ioid[IoidSource(c, r)] + 1
                        ELSE pio_next_ioid[r]]
               /\ ioidp' =
                    [r \in World |->
                        IF r \in members
                        THEN pio_next_ioid[IoidSource(c, r)]
                        ELSE ioidp[r]]
               /\ ret' = [r \in World |-> IF r \in members THEN PIO_NOERR ELSE ret[r]]
       /\ UNCHANGED <<iosystem_list, comms, in_handler, default_error_handler, aborted,
                      outp>>
       /\ UNCHANGED <<sortVars, asyncVars, fileVars>>

\* the checks of PIOc_InitDecomp_bc: the iosystem is known and no dimension
\* has gdimlen <= 0, start < 0, count < 0 or start + count > gdimlen (the
\* pointers are taken as given)
InitDecomp_bc_check(ios, gdimlen, start, count) ==
    IF ~ios.registered THEN pio_err(PIO_EBADID)
    ELSE IF \E i \in 1..Len(gdimlen) :
               gdimlen[i] <= 0 \/ start[i] < 0 \/ count[i] < 0 \/
               start[i] + count[i] > gdimlen[i]
         THEN pio_err(PIO_EINVAL)
         ELSE PIO_NOERR

\* "maplen *= count[i]" over the dimensions
bc_maplen(count) ==
    LET m[k \in 0..Len(count)] == IF k = 0 THEN 1 ELSE m[k - 1] * count[k]
    IN m[Len(count)]

\* prod[ndims - 1] = 1, prod[n] = prod[n + 1] * gdimlen[n + 1]
bc_prod_first_fastest(gdimlen) ==
    LET p[k \in 0..(Len(gdimlen) - 1)] == IF k = 0 THEN 1 ELSE p[k - 1] * gdimlen[k]
    IN [n \in 1..Len(gdimlen) |-> p[n - 1]]

bc_prod(gdimlen) ==
    LET nd == Len(gdimlen)
        p[k \in 0..(nd - 1)] == IF k = 0 THEN 1 ELSE p[k - 1] * gdimlen[nd - k + 1]
    IN [n \in 1..nd |-> p[nd - n]]

\* one pass of "loc[n] = (loc[n] + 1) % count[n]; while (loc[n] == 0 && n >
\* 0) { n--; loc[n] = (loc[n] + 1) % count[n]; }" from the last dimension
bc_next_loc(loc, count) ==
    LET nd == Len(count)
        step[k \in 0..nd] ==
            IF k = 0 THEN [loc |-> loc, go |-> TRUE]
            ELSE IF ~step[k - 1].go THEN step[k - 1]
                 ELSE LET n == nd - k + 1
                          v == (step[k - 1].loc[n] + 1) % count[n]
                      IN [loc |-> [step[k - 1].loc EXCEPT ![n] = v], go |-> v = 0]
    IN step[nd].loc

\* "compmap[i] = 1; compmap[i] += (start[n] + loc[n]) * prod[n]" over n
bc_offset(gdimlen, start, loc) ==
    LET nd == Len(gdimlen)
        prod == bc_prod(gdimlen)
        sum[k \in 0..nd] ==
            IF k = 0 THEN 1 ELSE sum[k - 1] + (start[k] + loc[k]) * prod[k]
    IN sum[nd]

\* the compmap PIOc_InitDecomp_bc builds for the block (start, count)
bc_compmap(gdimlen, start, count) ==
    LET maplen == bc_maplen(count)
        locs[i \in 0..maplen] ==
            IF i = 0 THEN [n \in 1..Len(gdimlen) |-> 0]
            ELSE bc_next_loc(locs[i - 1], count)
    IN [i \in 1..maplen |-> bc_offset(gdimlen, start, locs[i - 1])]

\* PIOc_InitDecomp_bc on process r with arguments its checks refuse
InitDecomp_bc_invalid(r, iosysid, gdimlen, start, count) ==
    LET err == InitDecomp_bc_check(pio_get_iosystem_from_id(r, iosysid), gdimlen,
                                   start, count)
    IN /\ ~in_handler[r]
       /\ err # PIO_NOERR
       /\ ret' = [ret EXCEPT ![r] = err]
       /\ UNCHANGED <<iosystem_list, comms, pio_next_ioid, iodesc_list, in_handler,
                      ncalls, default_error_handler, mpi_sends, ioidp, aborted, outp>>
       /\ UNCHANGED <<sortVars, asyncVars, fileVars>>

\* PIOc_InitDecomp_bc(iosysid, ..., gdimlen, start, count, ioidp) called by
\* every process of the iosystem with its own block args[r]: the call of
\* PIOc_InitDecomp on the compmap built from the block, with rearr =
\* PIO_REARR_SUBSET and no iostart/iocount
InitDecomp_bc(iosysid, gdimlen, args) ==
    /\ iosysid \in IosysIds
    /\ \A r \in Range(comms[iosysid].my_comm) :
          InitDecomp_bc_check(pio_get_iosystem_from_id(r, iosysid), gdimlen,
                              args[r].start, args[r].count) = PIO_NOERR
    /\ InitDecomp(iosysid, gdimlen,
                  [r \in World |->
                      IF r \in Range(comms[iosysid].my_comm)
                      THEN bc_compmap(gdimlen, args[r].start, args[r].count)
                      ELSE <<>>],
                  PIO_REARR_SUBSET, FALSE)

\* "compmap_1_based[e] = compmap[e] + 1" for every element
compmap_1_based_unshifted(compmap) == compmap

compmap_1_based(compmap) == [e \in 1..Len(compmap) |-> compmap[e] + 1]

\* "if (rearranger) rearrangerp = &rearranger;" with rearrangerp NULL (0)
\* at first
rearrangerp(rearranger) == IF rearranger # 0 THEN rearranger ELSE 0

\* PIOc_init_decomp(iosysid, ..., compmap, ioidp, rearranger, iostart,
\* iocount): the call of PIOc_InitDecomp on a one-based copy of compmap
init_decomp(iosysid, gdimlen, compmaps, rearranger, ioregion) ==
    InitDecomp(iosysid, gdimlen,
               [r \in World |-> compmap_1_based(compmaps[r])],
               rearrangerp(rearranger), ioregion)

\* "method != PIO_INTERNAL_ERROR && method != PIO_BCAST_ERROR && method !=
\* PIO_RETURN_ERROR" fails: the method is one of the three handlers
valid_method_any(method) == TRUE

valid_method(method) ==
    ~(method # PIO_INTERNAL_ERROR /\ method # PIO_BCAST_ERROR /\
      method # PIO_RETURN_ERROR)

\* piodie(): the process is gone
piodie(r) ==
    /\ aborted' = [aborted EXCEPT ![r] = TRUE]
    /\ UNCHANGED <<iosystem_list, comms, pio_next_ioid, iodesc_list, in_handler,
                   ret, ncalls, default_error_handler, mpi_sends, ioidp, outp>>

\* PIOc_set_iosystem_error_handling(iosysid, method, &old_method) called by
\* process r; on an async iosystem the call is collective: the processes
\* of the component all make it and the I/O processes run it on the
\* method they were sent.
\* "*old_method = iosysid == PIO_DEFAULT ? default_error_handler :
\* ios->error_handler" on process r
old_method_default(r, iosysid) == default_error_handler[r]

old_method(r, iosysid) ==
    IF iosysid = PIO_DEFAULT
    THEN default_error_handler[r]
    ELSE iosystem_list[r][iosysid].error_handler

set_iosystem_error_handling(r, iosysid, method) ==
    LET ios == pio_get_iosystem_from_id(r, iosysid)
    IN /\ ~in_handler[r]
       /\ IF iosysid # PIO_DEFAULT /\ ~ios.registered
          THEN /\ ret' = [ret EXCEPT ![r] = pio_err(PIO_EBADID)]
               /\ UNCHANGED <<iosystem_list, default_error_handler, mpi_sends, outp>>
          ELSE IF ~valid_method(method)
          THEN /\ ret' = [ret EXCEPT ![r] = pio_err(PIO_EINVAL)]
               /\ UNCHANGED <<iosystem_list, default_error_handler, mpi_sends, outp>>
          ELSE IF iosysid = PIO_DEFAULT
          THEN /\ default_error_handler' = [default_error_handler EXCEPT ![r] = method]
               /\ outp' = [outp EXCEPT ![r] = old_method(r, iosysid)]
               /\ ret' = [ret EXCEPT ![r] = PIO_NOERR]
               /\ UNCHANGED <<iosystem_list, mpi_sends>>
          ELSE LET callers == IF ios.async THEN Range(comms[iosysid].my_comm) ELSE {r}
               IN /\ ios.async => r \in Range(comms[iosysid].comp)
                  /\ iosystem_list' =
                       [q \in World |->
                           IF q \in callers
                           THEN [iosystem_list[q] EXCEPT ![iosysid].error_handler = method]
                           ELSE iosystem_list[q]]
                  /\ mpi_sends' =
                       [q \in World |->
                           IF ios.async /\ q \in Range(comms[iosysid].comp) /\
                              iosystem_list[q][iosysid].compmaster = MPI_ROOT
                           THEN mpi_sends[q] + 1
                           ELSE mpi_sends[q]]
                  /\ ret' = [q \in World |->
                               IF q \in callers /\ ~in_handler[q] THEN PIO_NOERR ELSE ret[q]]
                  /\ outp' = [q \in World |->
                                IF q \in callers /\ ~in_handler[q]
                                THEN old_method(q, iosysid)
                                ELSE outp[q]]
                  /\ UNCHANGED default_error_handler
       /\ UNCHANGED <<comms, pio_next_ioid, iodesc_list, in_handler, ncalls, ioidp,
                      aborted>>
       /\ UNCHANGED <<sortVars, asyncVars, fileVars>>

\* PIOc_Set_File_Error_Handling(ncid, method) called by process r: found
\* tells whether pio_get_file knows ncid, iosysid is the iosystem of that
\* file.  The value returned is the old method, not an error code.
Set_File_Error_Handling(r, found, iosysid, method) ==
    /\ ~in_handler[r]
    /\ found => pio_get_iosystem_from_id(r, iosysid).registered
    /\ IF ~found \/ ~valid_method(method)
       THEN piodie(r)
       ELSE /\ outp' = [outp EXCEPT ![r] = iosystem_list[r][iosysid].error_handler]
            /\ iosystem_list' =
                 [iosystem_list EXCEPT ![r][iosysid].error_handler = method]
            /\ UNCHANGED <<comms, pio_next_ioid, iodesc_list, in_handler, ret, ncalls,
                           default_error_handler, mpi_sends, ioidp, aborted>>
    /\ UNCHANGED <<sortVars, asyncVars, fileVars>>

\* a call of process r that only answers: err is returned and val stored
\* through the result pointer
Answer(r, err, val) ==
    /\ ~in_handler[r]
    /\ ret' = [ret EXCEPT ![r] = err]
    /\ outp' = [outp EXCEPT ![r] = val]
    /\ UNCHANGED <<iosystem_list, comms, pio_next_ioid, iodesc_list, in_handler,
                   ncalls, default_error_handler, mpi_sends, ioidp, aborted>>
    /\ UNCHANGED <<sortVars, asyncVars, fileVars>>

\* PIOc_iosystem_is_active(iosysid, &active): *active = false when the id
\* is unknown or comp_comm and io_comm are both MPI_COMM_NULL (a process
\* outside the union); the function returns PIO_NOERR in every case
iosystem_is_active(r, iosysid) ==
    LET ios == pio_get_iosystem_from_id(r, iosysid)
    IN Answer(r, PIO_NOERR, IF ~ios.registered \/ ~ios.in_union THEN 0 ELSE 1)

\* PIOc_get_numiotasks(iosysid, &numiotasks)
get_numiotasks(r, iosysid) ==
    LET ios == pio_get_iosystem_from_id(r, iosysid)
    IN IF ~ios.registered
       THEN Answer(r, pio_err(PIO_EBADID), outp[r])
       ELSE Answer(r, PIO_NOERR, ios.num_iotasks)

\* PIOc_iam_iotask(iosysid, &ioproc)
iam_iotask(r, iosysid) ==
    LET ios == pio_get_iosystem_from_id(r, iosysid)
    IN IF ~ios.registered
       THEN Answer(r, pio_err(PIO_EBADID), outp[r])
       ELSE Answer(r, PIO_NOERR, IF ios.ioproc THEN 1 ELSE 0)

\* PIOc_iotask_rank(iosysid, &iorank)
iotask_rank(r, iosysid) ==
    LET ios == pio_get_iosystem_from_id(r, iosysid)
    IN IF ~ios.registered
       THEN Answer(r, pio_err(PIO_EBADID), outp[r])
       ELSE Answer(r, PIO_NOERR, ios.io_rank)

\* pio_get_iodesc_from_id(ioid) on process r: the positions of the
\* descriptors with that id in the process's list
pio_get_iodesc_from_id(r, ioid) ==
    {i \in 1..Len(iodesc_list[r]) : iodesc_list[r][i].ioid = ioid}

\* PIOc_get_local_array_size(ioid): iodesc->ndof (the rearranger sets it to
\* maplen), or piodie when the id is unknown
get_local_array_size(r, ioid) ==
    IF pio_get_iodesc_from_id(r, ioid) = {}
    THEN /\ ~in_handler[r]
         /\ piodie(r)
         /\ UNCHANGED <<sortVars, asyncVars, fileVars>>
    ELSE \E i \in pio_get_iodesc_from_id(r, ioid) :
            Answer(r, ret[r], iodesc_list[r][i].maplen)

\* PIOc_free_iosystem(iosysid) called by process r.  With a known id the
\* call is collective: over the communicator of a sync iosystem, over the
\* component of an async one, whose leader sends PIO_MSG_EXIT; the I/O
\* processes then run the call from their message loop.  The descriptor
\* lists are not looked at.
\* does the process send PIO_MSG_EXIT in PIOc_free_iosystem: async with a
\* valid union_comm, not an I/O process, and the comp master
sends_exit_every_comp(ios) == ios.async /\ ios.in_union /\ ~ios.ioproc

sends_exit(ios) ==
    ios.async /\ ios.in_union /\ ~ios.ioproc /\ ios.compmaster = MPI_ROOT

free_iosystem(r, iosysid) ==
    LET ios == pio_get_iosystem_from_id(r, iosysid)
    IN IF ~ios.registered
       THEN Answer(r, pio_err(PIO_EBADID), outp[r])
       ELSE IF ~ios.in_union
       THEN \* the iosystem of another component: no union_comm, nothing is
            \* sent, the process deletes its own entry
            /\ ~in_handler[r]
            /\ iosystem_list' = [iosystem_list EXCEPT ![r][iosysid] = NullIosys]
            /\ ret' = [ret EXCEPT ![r] = PIO_NOERR]
            /\ UNCHANGED <<comms, pio_next_ioid, iodesc_list, in_handler, ncalls,
                           default_error_handler, mpi_sends, ioidp, aborted, outp>>
            /\ UNCHANGED <<sortVars, asyncVars, fileVars>>
       ELSE LET callers == Range(comms[iosysid].my_comm)
            IN /\ r \in callers /\ ~in_handler[r]
               /\ iosystem_list' =
                    [q \in World |->
                        IF q \in callers
                        THEN [iosystem_list[q] EXCEPT ![iosysid] = NullIosys]
                        ELSE iosystem_list[q]]
               /\ mpi_sends' =
                    [q \in World |->
                        IF q \in callers /\ sends_exit(iosystem_list[q][iosysid])
                        THEN mpi_sends[q] + 1
                        ELSE mpi_sends[q]]
               /\ ret' = [q \in World |->
                            IF q \in callers /\ ~in_handler[q] THEN PIO_NOERR ELSE ret[q]]
               /\ UNCHANGED <<comms, pio_next_ioid, iodesc_list, in_handler, ncalls,
                              default_error_handler, ioidp, aborted, outp>>
               /\ UNCHANGED <<sortVars, asyncVars, fileVars>>

(***************************************************************************)
(* Part 3: the async protocol.  PIOc_init_async made one iosystem per      *)
(* component; the I/O processes are io ranks 0..NumIoProcs-1 (union ranks  *)
(* 0..NumIoProcs-1 of every component), the processes of component c have  *)
(* comp ranks 0..CompSize-1 (union ranks NumIoProcs..).  MPI_Send and the  *)
(* root side of MPI_Bcast may complete before the matching receive is      *)
(* posted, so both are modelled as appending to a FIFO per sender,         *)
(* receiver and communicator (MPI's non-overtaking rule).                  *)
(***************************************************************************)
Comps == 1..NumComps
CompRanks == 0..(CompSize - 1)
IoRanks == 0..(NumIoProcs - 1)

\* frames given to PIOc_setframe
Frames == {7}

SetFrameOp(f) == [tag |-> "SETFRAME", arg |-> f]
AdvanceFrameOp == [tag |-> "ADVANCEFRAME", arg |-> 0]
ExitOp == [tag |-> "EXIT", arg |-> 0]
Ops == {SetFrameOp(f) : f \in Frames} \cup {AdvanceFrameOp, ExitOp}

NoMsg == [comp |-> 0, tag |-> "NONE"]

\* my_iosys->compmaster = my_iosys->comp_rank ? MPI_PROC_NULL : MPI_ROOT
compmaster_everyone(p) == MPI_ROOT

compmaster(p) == IF p # 0 THEN MPI_PROC_NULL ELSE MPI_ROOT

\* members of my_comm (the union comm) other than the comp root
OtherComp == CompRanks \ {0}
ErrReceivers == {<<"io", i>> : i \in IoRanks} \cup {<<"comp", p>> : p \in OtherComp}

AsyncInit ==
    /\ c_pc = [c \in Comps |-> [p \in CompRanks |-> "init"]]
    /\ c_done = [c \in Comps |-> [p \in CompRanks |-> 0]]
    /\ c_ret = [c \in Comps |-> [p \in CompRanks |-> PIO_NOERR]]
    /\ c_record = [c \in Comps |-> [p \in CompRanks |-> 0]]
    /\ prog = [c \in Comps |-> <<>>]
    /\ tagq = [c \in Comps |-> <<>>]
    /\ parq = [c \in Comps |-> [i \in IoRanks |-> <<>>]]
    /\ errq = [c \in Comps |-> [x \in ErrReceivers |-> <<>>]]
    /\ sent = [c \in Comps |-> <<>>]
    /\ h_pc = [i \in IoRanks |-> "init"]
    /\ h_msg = [i \in IoRanks |-> NoMsg]
    /\ ioq = [i \in IoRanks |-> <<>>]
    /\ h_record = [i \in IoRanks |-> [c \in Comps |-> 0]]
    /\ recvd = [c \in Comps |-> <<>>]
    /\ exec = [i \in IoRanks |-> [c \in Comps |-> <<>>]]
    /\ c_mpierr = [c \in Comps |-> [p \in CompRanks |-> 0]]

\* "if (in_io)" at the end of PIOc_init_async: does the process call
\* pio_msg_handler2 before it returns
StartsHandler_never(in_io) == FALSE

StartsHandler(in_io) == in_io

\* PIOc_init_async on a computational process: in_io is false, the call
\* skips pio_msg_handler2 and returns
CompInitReturn(c, p) ==
    /\ c_pc[c][p] = "init"
    /\ ~StartsHandler(FALSE)
    /\ c_pc' = [c_pc EXCEPT ![c][p] = "idle"]
    /\ UNCHANGED <<c_done, c_ret, c_record, prog, tagq, parq, errq, sent,
                   h_pc, h_msg, ioq, h_record, recvd, exec>>
    /\ UNCHANGED c_mpierr
    /\ UNCHANGED <<sortVars, mainVars, fileVars>>

\* PIOc_init_async on an I/O process: in_io is true, pio_msg_handler2 starts
EnterHandler(i) ==
    /\ h_pc[i] = "init"
    /\ h_pc' = [h_pc EXCEPT ![i] = IF StartsHandler(TRUE) THEN "wait" ELSE "returned"]
    /\ UNCHANGED <<c_pc, c_done, c_ret, c_record, prog, tagq, parq, errq, sent,
                   h_msg, ioq, h_record, recvd, exec>>
    /\ UNCHANGED c_mpierr
    /\ UNCHANGED <<sortVars, mainVars, fileVars>>

\* the call number the process is in or will make next
CallNo(c, p) == c_done[c][p] + 1

\* a computational process enters its next collective call (PIOc_setframe,
\* PIOc_advanceframe or PIOc_free_iosystem) and runs the "if (!ios->ioproc)"
\* block: the comp master sends the tag to ioroot on union_comm, then every
\* MPI_Bcast of a parameter on the intercomm hands the value to the I/O
\* processes on the root (MPI_ROOT) and does nothing on the others
\* (MPI_PROC_NULL).  The processes of a component make the same calls in
\* the same order.
Call(c, p, op) ==
    /\ c_pc[c][p] = "idle"
    /\ CallNo(c, p) <= MaxOps
    /\ IF CallNo(c, p) <= Len(prog[c])
       THEN op = prog[c][CallNo(c, p)] /\ UNCHANGED prog
       ELSE prog' = [prog EXCEPT ![c] = Append(@, op)]
    /\ IF compmaster(p) = MPI_ROOT
       THEN /\ tagq' = [tagq EXCEPT ![c] = Append(@, op.tag)]
            /\ parq' = [parq EXCEPT ![c] = [i \in IoRanks |-> Append(@[i], op.arg)]]
            /\ sent' = [sent EXCEPT ![c] = Append(@, <<p, op.tag>>)]
       ELSE UNCHANGED <<tagq, parq, sent>>
    /\ c_pc' = [c_pc EXCEPT ![c][p] = "errbcast"]
    /\ UNCHANGED <<c_done, c_ret, c_record, errq,
                   h_pc, h_msg, ioq, h_record, recvd, exec>>
    /\ UNCHANGED c_mpierr
    /\ UNCHANGED <<sortVars, mainVars, fileVars>>

\* does the process at MPI_Bcast(&mpierr, 1, MPI_INT, ios->comproot,
\* ios->my_comm) have to wait for the root's value
BcastWaits_never(isroot) == FALSE

BcastWaits(isroot) == ~isroot

\* the effect of a call on vdesc->record: "vdesc->record = frame" in
\* PIOc_setframe, "vdesc->record++" in PIOc_advanceframe
RecordAfter_setframe_increments(record, tag, arg) ==
    IF tag = "SETFRAME" THEN record + 1
    ELSE IF tag = "ADVANCEFRAME" THEN record + 1
    ELSE record

RecordAfter(record, tag, arg) ==
    IF tag = "SETFRAME" THEN arg
    ELSE IF tag = "ADVANCEFRAME" THEN record + 1
    ELSE record

\* MPI_Bcast(&mpierr, ..., ios->comproot, ios->my_comm) on a computational
\* process (comp rank 0 is the root, union rank num_io_procs), then the rest
\* of the call and its return; PIOc_free_iosystem deletes the iosystem
Complete(c, p) ==
    LET op == prog[c][CallNo(c, p)]
    IN /\ c_pc[c][p] = "errbcast"
       /\ IF BcastWaits(p = 0)
          THEN /\ errq[c][<<"comp", p>>] # <<>>
               /\ errq' = [errq EXCEPT ![c][<<"comp", p>>] = Tail(@)]
          ELSE IF p = 0
               THEN errq' = [errq EXCEPT ![c] = [x \in ErrReceivers |-> Append(@[x], 0)]]
               ELSE UNCHANGED errq
       /\ c_record' = [c_record EXCEPT ![c][p] = RecordAfter(@, op.tag, op.arg)]
       /\ c_ret' = [c_ret EXCEPT ![c][p] = PIO_NOERR]
       /\ c_done' = [c_done EXCEPT ![c][p] = @ + 1]
       /\ c_pc' = [c_pc EXCEPT ![c][p] = IF op.tag = "EXIT" THEN "freed" ELSE "idle"]
       /\ UNCHANGED <<prog, tagq, parq, sent,
                      h_pc, h_msg, ioq, h_record, recvd, exec>>
       /\ UNCHANGED c_mpierr
       /\ UNCHANGED <<sortVars, mainVars, fileVars>>

\* pio_msg_handler2, steps 1 and 2: io rank 0 receives a tag from the leader
\* of any component and broadcasts it to the other I/O processes
HandlerRecv(i) ==
    /\ h_pc[i] = "wait"
    /\ IF i = 0
       THEN \E c \in Comps :
              /\ tagq[c] # <<>>
              /\ tagq' = [tagq EXCEPT ![c] = Tail(@)]
              /\ recvd' = [recvd EXCEPT ![c] = Append(@, Head(tagq[c]))]
              /\ ioq' = [j \in IoRanks |->
                           IF j = 0 THEN ioq[j]
                           ELSE Append(ioq[j], [comp |-> c, tag |-> Head(tagq[c])])]
              /\ h_msg' = [h_msg EXCEPT ![i] = [comp |-> c, tag |-> Head(tagq[c])]]
       ELSE /\ ioq[i] # <<>>
            /\ ioq' = [ioq EXCEPT ![i] = Tail(@)]
            /\ h_msg' = [h_msg EXCEPT ![i] = Head(ioq[i])]
            /\ UNCHANGED <<tagq, recvd>>
    /\ h_pc' = [h_pc EXCEPT ![i] = "call"]
    /\ UNCHANGED <<c_pc, c_done, c_ret, c_record, prog, parq, errq, sent,
                   h_record, exec>>
    /\ UNCHANGED c_mpierr
    /\ UNCHANGED <<sortVars, mainVars, fileVars>>

\* step 4: where the dispatcher goes after a call: back to waiting, or out
\* of the loop and back to the caller of PIOc_init_async on Exit
LoopAfter(tag) == IF tag = "EXIT" THEN "returned" ELSE "wait"

\* step 3: the handler of the tag receives the parameters on the
\* component's intercomm and makes the call on the I/O process, where
\* ios->ioproc is set: nothing is sent, the process takes mpierr from
\* MPI_Bcast(&mpierr, ..., ios->comproot, ios->my_comm) and does the rest of
\* the call
HandlerCall(i) ==
    LET c == h_msg[i].comp
        tag == h_msg[i].tag
    IN /\ h_pc[i] = "call"
       /\ parq[c][i] # <<>>
       /\ parq' = [parq EXCEPT ![c][i] = Tail(@)]
       /\ IF BcastWaits(FALSE)
          THEN /\ errq[c][<<"io", i>>] # <<>>
               /\ errq' = [errq EXCEPT ![c][<<"io", i>>] = Tail(@)]
          ELSE UNCHANGED errq
       /\ h_record' = [h_record EXCEPT ![i][c] = RecordAfter(@, tag, Head(parq[c][i]))]
       /\ exec' = [exec EXCEPT ![i][c] = Append(@, tag)]
       /\ h_msg' = [h_msg EXCEPT ![i] = NoMsg]
       /\ h_pc' = [h_pc EXCEPT ![i] = LoopAfter(tag)]
       /\ UNCHANGED <<c_pc, c_done, c_ret, c_record, prog, tagq, sent,
                      ioq, recvd>>
       /\ UNCHANGED c_mpierr
       /\ UNCHANGED <<sortVars, mainVars, fileVars>>

\* where the "if (!ios->ioproc)" block of a call can fail: nowhere, at the
\* MPI_Send of the tag (comp master only) or at an MPI_Bcast of a parameter
SendFailures == {"none", "tag", "par"}

\* the calls that change vdesc->record
FrameOps == {SetFrameOp(f) : f \in Frames} \cup {AdvanceFrameOp}

\* the "if (!ios->ioproc)" block of PIOc_setframe and PIOc_advanceframe on a
\* computational process, with MPI calls that may fail: mpierr keeps the
\* code of the first call that failed and the calls after it are skipped
\* ("if (!mpierr)").  A call that failed delivered nothing.
CallMayFail(c, p, op, fail) ==
    /\ c_pc[c][p] = "idle"
    /\ CallNo(c, p) <= MaxOps
    /\ fail = "tag" => compmaster(p) = MPI_ROOT
    /\ IF CallNo(c, p) <= Len(prog[c])
       THEN op = prog[c][CallNo(c, p)] /\ UNCHANGED prog
       ELSE prog' = [prog EXCEPT ![c] = Append(@, op)]
    /\ IF compmaster(p) = MPI_ROOT /\ fail # "tag"
       THEN /\ tagq' = [tagq EXCEPT ![c] = Append(@, op.tag)]
            /\ sent' = [sent EXCEPT ![c] = Append(@, <<p, op.tag>>)]
       ELSE UNCHANGED <<tagq, sent>>
    /\ IF compmaster(p) = MPI_ROOT /\ fail = "none"
       THEN parq' = [parq EXCEPT ![c] = [i \in IoRanks |-> Append(@[i], op.arg)]]
       ELSE UNCHANGED parq
    /\ c_mpierr' = [c_mpierr EXCEPT ![c][p] = IF fail = "none" THEN 0 ELSE 1]
    /\ c_pc' = [c_pc EXCEPT ![c][p] = "errbcast"]
    /\ UNCHANGED <<c_done, c_ret, c_record, errq,
                   h_pc, h_msg, ioq, h_record, recvd, exec>>
    /\ UNCHANGED <<sortVars, mainVars, fileVars>>

\* MPI_Bcast(&mpierr, 1, MPI_INT, ios->comproot, ios->my_comm): the root
\* hands out its mpierr, every other process's mpierr is replaced by the
\* root's; then "if (mpierr) return check_mpi(...)", else the record is set
CompleteMayFail(c, p) ==
    LET op  == prog[c][CallNo(c, p)]
        err == IF BcastWaits(p = 0) THEN Head(errq[c][<<"comp", p>>])
               ELSE c_mpierr[c][p]
    IN /\ c_pc[c][p] = "errbcast"
       /\ IF BcastWaits(p = 0)
          THEN /\ errq[c][<<"comp", p>>] # <<>>
               /\ errq' = [errq EXCEPT ![c][<<"comp", p>>] = Tail(@)]
          ELSE IF p = 0
               THEN errq' = [errq EXCEPT ![c] =
                                [x \in ErrReceivers |-> Append(@[x], c_mpierr[c][p])]]
               ELSE UNCHANGED errq
       /\ c_mpierr' = [c_mpierr EXCEPT ![c][p] = err]
       /\ IF err # 0
          THEN /\ c_ret' = [c_ret EXCEPT ![c][p] = check_mpi(err)]
               /\ UNCHANGED c_record
          ELSE /\ c_ret' = [c_ret EXCEPT ![c][p] = PIO_NOERR]
               /\ c_record' = [c_record EXCEPT ![c][p] = RecordAfter(@, op.tag, op.arg)]
       /\ c_done' = [c_done EXCEPT ![c][p] = @ + 1]
       /\ c_pc' = [c_pc EXCEPT ![c][p] = "idle"]
       /\ UNCHANGED <<prog, tagq, parq, sent,
                      h_pc, h_msg, ioq, h_record, recvd, exec>>
       /\ UNCHANGED <<sortVars, mainVars, fileVars>>

\* the call on an I/O process: it takes the parameters, then mpierr from
\* the broadcast on my_comm, and sets the record when mpierr is 0
HandlerCallMayFail(i) ==
    LET c == h_msg[i].comp
        tag == h_msg[i].tag
        err == Head(errq[c][<<"io", i>>])
    IN /\ h_pc[i] = "call"
       /\ parq[c][i] # <<>>
       /\ parq' = [parq EXCEPT ![c][i] = Tail(@)]
       /\ errq[c][<<"io", i>>] # <<>>
       /\ errq' = [errq EXCEPT ![c][<<"io", i>>] = Tail(@)]
       /\ IF err # 0
          THEN UNCHANGED <<h_record, exec>>
          ELSE /\ h_record' = [h_record EXCEPT ![i][c] =
                                   RecordAfter(@, tag, Head(parq[c][i]))]
               /\ exec' = [exec EXCEPT ![i][c] = Append(@, tag)]
       /\ h_msg' = [h_msg EXCEPT ![i] = NoMsg]
       /\ h_pc' = [h_pc EXCEPT ![i] = LoopAfter(tag)]
       /\ UNCHANGED <<c_pc, c_done, c_ret, c_record, prog, tagq, sent,
                      ioq, recvd, c_mpierr>>
       /\ UNCHANGED <<sortVars, mainVars, fileVars>>

\* SpecFail: one component and the I/O processes, MPI calls may fail
FailNext ==
    \/ \E p \in CompRanks : CompInitReturn(1, p)
    \/ \E i \in IoRanks : EnterHandler(i)
    \/ \E p \in CompRanks, op \in FrameOps, fail \in SendFailures :
          CallMayFail(1, p, op, fail)
    \/ \E p \in CompRanks : CompleteMayFail(1, p)
    \/ \E i \in IoRanks : HandlerRecv(i)
    \/ \E i \in IoRanks : HandlerCallMayFail(i)

AsyncNext ==
    \/ \E c \in Comps, p \in CompRanks : CompInitReturn(c, p)
    \/ \E i \in IoRanks : EnterHandler(i)
    \/ \E c \in Comps, p \in CompRanks, op \in Ops : Call(c, p, op)
    \/ \E c \in Comps, p \in CompRanks : Complete(c, p)
    \/ \E i \in IoRanks : HandlerRecv(i)
    \/ \E i \in IoRanks : HandlerCall(i)

(***************************************************************************)
(* Part 4: open files, the record number of their variables and the write  *)
(* buffer.                                                                 *)
(***************************************************************************)
\* no file_desc_t under this ncid
NoFile == [open |-> FALSE, iosysid |-> 0, varlist |-> <<>>]

\* decomposition ids of the write buffers of a file
BufIoids == {pio_next_ioid_init, pio_next_ioid_init + 1}

\* the process whose write buffers are followed
BufRank == 0

\* a wmulti_buffer with no array in it
wmb_empty == [num_arrays |-> 0, vid |-> <<>>, frame |-> <<>>]

FileInit ==
    /\ file_list = [r \in World |-> [n \in 1..MaxFiles |-> NoFile]]
    /\ wmb = [n \in 1..MaxFiles |-> [i \in BufIoids |-> wmb_empty]]
    /\ written = <<>>
    /\ appended = <<>>

\* a file is created or opened on iosystem iosysid by every process of the
\* iosystem: the next free ncid names it on each of them, and its
\* variables start at record 0
openfile(iosysid) ==
    LET c == comms[iosysid]
        callers == Range(c.my_comm)
        free == {n \in 1..MaxFiles : \A q \in callers : ~file_list[q][n].open}
    IN /\ iosysid \in IosysIds
       /\ \A q \in callers : pio_get_iosystem_from_id(q, iosysid).registered
       /\ \A q \in callers : in_handler[q] = (c.async /\ q \in Range(c.io))
       /\ free # {}
       /\ LET ncid == CHOOSE n \in free : \A n2 \in free : n <= n2
          IN /\ file_list' =
                  [q \in World |->
                      IF q \in callers
                      THEN [file_list[q] EXCEPT ![ncid] =
                              [open |-> TRUE, iosysid |-> iosysid,
                               varlist |-> [v \in 1..NumVars |-> [record |-> 0]]]]
                      ELSE file_list[q]]
             /\ outp' = [q \in World |->
                            IF q \in callers /\ ~in_handler[q] THEN ncid ELSE outp[q]]
       /\ ret' = [q \in World |->
                    IF q \in callers /\ ~in_handler[q] THEN PIO_NOERR ELSE ret[q]]
       /\ UNCHANGED <<iosystem_list, comms, pio_next_ioid, iodesc_list, in_handler,
                      ncalls, default_error_handler, mpi_sends, ioidp, aborted>>
       /\ UNCHANGED <<wmb, written, appended>>
       /\ UNCHANGED <<sortVars, asyncVars>>

\* pio_get_file(ncid, &file) on process r
pio_get_file(r, ncid) ==
    IF ncid \in 1..MaxFiles THEN file_list[r][ncid] ELSE NoFile

\* get_var_desc(varid, &file->varlist, &vdesc) finds the variable
get_var_desc(varid, varlist) == varid \in DOMAIN varlist

\* PIOc_setframe and PIOc_advanceframe called by process r: both look up
\* the file and the variable, then in async mode the component's leader
\* sends the tag and the parameters go to the I/O processes, which run the
\* same call from their message loop; then vdesc->record is assigned
frame_call(r, ncid, varid, tag, frame) ==
    LET file == pio_get_file(r, ncid)
    IN IF ~file.open \/ ~get_var_desc(varid, file.varlist)
       THEN Answer(r, pio_err(PIO_EBADID), outp[r])
       ELSE LET c == comms[file.iosysid]
                callers == Range(c.my_comm)
            IN /\ r \in callers /\ ~in_handler[r]
               /\ \A q \in callers : in_handler[q] = (c.async /\ q \in Range(c.io))
               /\ RecordAfter(file.varlist[varid].record, tag, frame) <= MaxRecord
               /\ file_list' =
                    [q \in World |->
                        IF q \in callers
                        THEN [file_list[q] EXCEPT ![ncid].varlist[varid].record =
                                                     RecordAfter(@, tag, frame)]
                        ELSE file_list[q]]
               /\ mpi_sends' =
                    [q \in World |->
                        IF c.async /\ q \in Range(c.comp) /\
                           iosystem_list[q][file.iosysid].compmaster = MPI_ROOT
                        THEN mpi_sends[q] + 1
                        ELSE mpi_sends[q]]
               /\ ret' = [q \in World |->
                            IF q \in callers /\ ~in_handler[q] THEN PIO_NOERR ELSE ret[q]]
               /\ UNCHANGED <<iosystem_list, comms, pio_next_ioid, iodesc_list,
                              in_handler, ncalls, default_error_handler, ioidp,
                              aborted, outp>>
               /\ UNCHANGED <<wmb, written, appended>>
               /\ UNCHANGED <<sortVars, asyncVars>>

setframe(r, ncid, varid, frame) == frame_call(r, ncid, varid, "SETFRAME", frame)

advanceframe(r, ncid, varid) == frame_call(r, ncid, varid, "ADVANCEFRAME", 0)

\* the arrays a flush hands to the file driver, in the order it writes them
FlushOrder_reversed(entry) ==
    [i \in 1..entry.num_arrays |->
        <<entry.vid[entry.num_arrays + 1 - i], entry.frame[entry.num_arrays + 1 - i]>>]

FlushOrder(entry) ==
    [i \in 1..entry.num_arrays |-> <<entry.vid[i], entry.frame[i]>>]

\* the file driver's log after the flush of entry (ncid, ioid)
WrittenAfter(ncid, ioid, entry) ==
    written \o [i \in 1..entry.num_arrays |->
                   <<ncid, ioid, FlushOrder(entry)[i][1], FlushOrder(entry)[i][2]>>]

\* the write of variable varid of file ncid through decomposition ioid on
\* process BufRank: the array is appended to the entry of (ncid, ioid) with
\* the variable's current record; the entry is flushed when it is full or
\* the caller asks for it
put_darray(ncid, varid, ioid, flushtodisk) ==
    LET file == pio_get_file(BufRank, ncid)
        entry == wmb[ncid][ioid]
        more == [num_arrays |-> entry.num_arrays + 1,
                 vid |-> Append(entry.vid, varid),
                 frame |-> Append(entry.frame, file.varlist[varid].record)]
    IN /\ file.open /\ get_var_desc(varid, file.varlist)
       /\ Len(appended) < MaxWritten
       /\ appended' = Append(appended, <<ncid, ioid, varid, file.varlist[varid].record>>)
       /\ IF flushtodisk \/ more.num_arrays >= MaxArrays
          THEN /\ written' = WrittenAfter(ncid, ioid, more)
               /\ wmb' = [wmb EXCEPT ![ncid][ioid] = wmb_empty]
          ELSE /\ wmb' = [wmb EXCEPT ![ncid][ioid] = more]
               /\ UNCHANGED written
       /\ UNCHANGED file_list
       /\ UNCHANGED <<sortVars, mainVars, asyncVars>>

\* the flush of entry (ncid, ioid) at a sync or close of the file: every
\* array of the entry is written and num_arrays returns to zero
flush_buffer(ncid, ioid) ==
    /\ pio_get_file(BufRank, ncid).open
    /\ wmb[ncid][ioid].num_arrays > 0
    /\ written' = WrittenAfter(ncid, ioid, wmb[ncid][ioid])
    /\ wmb' = [wmb EXCEPT ![ncid][ioid] = wmb_empty]
    /\ UNCHANGED <<file_list, appended>>
    /\ UNCHANGED <<sortVars, mainVars, asyncVars>>

(***************************************************************************)
(* Inputs of the calls                                                     *)
(***************************************************************************)
\* communicators handed to PIOc_Init_Intracomm: runs of consecutive world
\* ranks, at least two of them
SyncComms ==
    {[i \in 1..(hi - lo + 1) |-> lo + i - 1] : lo \in World, hi \in World} \
    {c \in {[i \in 1..(hi - lo + 1) |-> lo + i - 1] : lo \in World, hi \in World} :
        Len(c) < 2}

IoTaskCounts == 1..2
Strides == 1..2
Bases == 0..1
Rearrangers == {PIO_REARR_BOX, PIO_REARR_SUBSET}

\* the ranks after the I/O ranks, as one component or split in two
RestOf(n) == [i \in 1..(NumRanks - n) |-> n + i - 1]

AsyncLayouts ==
    {<<[i \in 1..n |-> i - 1], <<RestOf(n)>>>> : n \in 1..(NumRanks - 1)} \cup
    {<<[i \in 1..n |-> i - 1],
       <<SubSeq(RestOf(n), 1, 1), SubSeq(RestOf(n), 2, NumRanks - n)>>>> :
        n \in 1..(NumRanks - 2)}

\* the rearranger argument of PIOc_InitDecomp: 0 is the NULL pointer
RearrangerArgs == {0, PIO_REARR_BOX, PIO_REARR_SUBSET}

GdimlenChoices == {<<4>>, <<2, 2>>}

\* maps of a rank: one with a repeated nonzero offset that needs no sort,
\* one with repeated zeros only that needs a sort
MapChoices == {<<1, 1, 2>>, <<0, 2, 0, 1>>}

\* Spec: any iosystems, every rank gives the same sorted map
Next ==
    \/ \E comp_comm \in SyncComms, n \in IoTaskCounts, st \in Strides,
          rearr \in Rearrangers :
          Init_Intracomm(comp_comm, n, st, 0, rearr)
    \/ \E lay \in AsyncLayouts, rearr \in Rearrangers :
          init_async(lay[1], lay[2], rearr)
    \/ \E id \in 1..MaxIosys, rearr \in RearrangerArgs, ioregion \in BOOLEAN :
          InitDecomp(id, <<4>>, [r \in World |-> <<1, 2>>], rearr, ioregion)

\* SpecDesc: one initialisation call, then decompositions of any maps
DescNext ==
    \/ \E comp_comm \in SyncComms, n \in IoTaskCounts, st \in Strides,
          b \in Bases, rearr \in Rearrangers :
          /\ IosysIds = {}
          /\ Init_Intracomm(comp_comm, n, st, b, rearr)
    \/ \E lay \in AsyncLayouts, rearr \in Rearrangers :
          /\ IosysIds = {}
          /\ init_async(lay[1], lay[2], rearr)
    \/ \E id \in 1..MaxIosys, g \in GdimlenChoices, maps \in [World -> MapChoices],
          rearr \in RearrangerArgs, ioregion \in BOOLEAN :
          InitDecomp(id, g, maps, rearr, ioregion)

\* arguments a caller may hand in, the refused ones included
ArgIoTaskCounts == 0..2
ArgStrides == -1..2
ArgBases == -1..1
ArgRearrangers == {PIO_REARR_BOX, PIO_REARR_SUBSET, 3}
ArgRearrangerArgs == {0, PIO_REARR_BOX, PIO_REARR_SUBSET, 3}
ArgGdimlen == {<<4>>, <<0>>, <<2, -1>>}
ArgPresent == {AllPresent, [AllPresent EXCEPT !.gdimlen = FALSE],
               [AllPresent EXCEPT !.compmap = FALSE],
               [AllPresent EXCEPT !.ioidp = FALSE]}

\* io_proc_list and proc_list of PIOc_init_async in any order, also with a
\* process in both
ArgAsyncLayouts ==
    AsyncLayouts \cup
    {<<<<1, 0>>, <<<<2>>>>>>, <<<<2>>, <<<<1, 0>>>>>>, <<<<1>>, <<<<2>>, <<0>>>>>>,
     <<<<0>>, <<<<0, 1>>>>>>, <<<<0, 1>>, <<<<1, 2>>>>>>}

\* SpecArgs: one iosystem made with any arguments, then decompositions
\* with any arguments
ArgsNext ==
    \/ \E comp_comm \in SyncComms, n \in ArgIoTaskCounts, st \in ArgStrides,
          b \in ArgBases, rearr \in ArgRearrangers, iosysidp \in BOOLEAN :
          /\ IosysIds = {}
          /\ PIOc_Init_Intracomm(comp_comm, n, st, b, rearr, iosysidp)
    \/ \E lay \in ArgAsyncLayouts, rearr \in ArgRearrangers, iosysidp \in BOOLEAN :
          /\ IosysIds = {}
          /\ PIOc_init_async(lay[1], lay[2], rearr, iosysidp)
    \/ \E id \in 1..MaxIosys, rearr \in ArgRearrangerArgs, ioregion \in BOOLEAN :
          InitDecomp(id, <<4>>, [r \in World |-> <<1, 2>>], rearr, ioregion)

\* SpecCheck: one iosystem, then PIOc_InitDecomp calls with arguments its
\* checks accept or refuse
CheckNext ==
    \/ \E comp_comm \in SyncComms, rearr \in Rearrangers :
          /\ IosysIds = {}
          /\ Init_Intracomm(comp_comm, 1, 1, 0, rearr)
    \/ \E lay \in AsyncLayouts :
          /\ IosysIds = {}
          /\ init_async(lay[1], lay[2], PIO_REARR_BOX)
    \/ \E id \in 1..MaxIosys, g \in ArgGdimlen, rearr \in RearrangerArgs :
          InitDecomp(id, g, [r \in World |-> <<1, 2>>], rearr, TRUE)
    \/ \E r \in World, id \in 1..MaxIosys, g \in ArgGdimlen, present \in ArgPresent :
          InitDecomp_invalid(r, id, g, present)

\* the method argument: the three handlers and a value that is none
ArgMethods == {PIO_INTERNAL_ERROR, PIO_BCAST_ERROR, PIO_RETURN_ERROR, -54}

\* the processes that set handlers
ErrCallers == {0, 1}

\* SpecErr: the handlers are set before and after one iosystem is made;
\* nothing happens once a process called piodie
ErrNext ==
    \/ \E comp_comm \in {<<0, 1>>, <<1, 2>>} :
          /\ IosysIds = {}
          /\ \A r \in World : ~aborted[r]
          /\ Init_Intracomm(comp_comm, 1, 1, 0, PIO_REARR_BOX)
    \/ /\ IosysIds = {}
       /\ \A r \in World : ~aborted[r]
       /\ init_async(<<0>>, <<<<1, 2>>>>, PIO_REARR_BOX)
    \/ \E r \in ErrCallers, id \in {PIO_DEFAULT} \cup (1..MaxIosys), method \in ArgMethods :
          /\ \A q \in World : ~aborted[q] /\ mpi_sends[q] < MaxOps
          /\ set_iosystem_error_handling(r, id, method)
    \/ \E r \in ErrCallers, found \in BOOLEAN, id \in 1..MaxIosys, method \in ArgMethods :
          /\ \A q \in World : ~aborted[q]
          /\ Set_File_Error_Handling(r, found, id, method)

\* SpecHandlers: up to two iosystems whose handlers and the library default
\* are set in any order
HandlersNext ==
    \/ \E comp_comm \in {<<0, 1>>, <<1, 2>>} :
          Init_Intracomm(comp_comm, 1, 1, 0, PIO_REARR_BOX)
    \/ /\ IosysIds = {}
       /\ init_async(<<0>>, <<<<1, 2>>>>, PIO_REARR_BOX)
    \/ \E r \in ErrCallers, id \in {PIO_DEFAULT} \cup (1..MaxIosys) :
          \E method \in {PIO_BCAST_ERROR, PIO_RETURN_ERROR} :
             /\ \A q \in World : mpi_sends[q] < MaxOps
             /\ set_iosystem_error_handling(r, id, method)

\* decomposition ids handed to PIOc_get_local_array_size
ArgIoids == {pio_next_ioid_init, pio_next_ioid_init + 7}

\* SpecLife: iosystems and decompositions are made, asked about and freed
LifeNext ==
    \/ \E comp_comm \in {<<0, 1>>, <<0, 1, 2>>} :
          /\ \A r \in World : ~aborted[r]
          /\ Init_Intracomm(comp_comm, 1, 1, 0, PIO_REARR_SUBSET)
    \/ /\ IosysIds = {}
       /\ init_async(<<0>>, <<<<1, 2>>>>, PIO_REARR_BOX)
    \/ \E id \in 1..MaxIosys :
          /\ \A r \in World : ~aborted[r]
          /\ InitDecomp(id, <<4>>, [r \in World |-> <<1, 2>>], 0, TRUE)
    \/ \E r \in ErrCallers, id \in 1..MaxIosys :
          /\ \A q \in World : ~aborted[q]
          /\ \/ iosystem_is_active(r, id)
             \/ get_numiotasks(r, id)
             \/ iam_iotask(r, id)
             \/ iotask_rank(r, id)
             \/ free_iosystem(r, id)
    \/ \E r \in ErrCallers, ioid \in ArgIoids :
          /\ \A q \in World : ~aborted[q]
          /\ get_local_array_size(r, ioid)

\* zero-based maps handed to PIOc_init_decomp (-1: not transferred) and
\* one-based maps handed to PIOc_InitDecomp
ZeroBasedMaps == {<<0, 1>>, <<-1, 2>>}
OneBasedMaps == {<<1, 2>>, <<2, 1>>}

\* SpecMap: one iosystem, decompositions made through either entry point
MapNext ==
    \/ \E comp_comm \in {<<0, 1>>, <<1, 2>>}, rearr \in Rearrangers :
          /\ IosysIds = {}
          /\ Init_Intracomm(comp_comm, 1, 1, 0, rearr)
    \/ /\ IosysIds = {}
       /\ init_async(<<0>>, <<<<1, 2>>>>, PIO_REARR_BOX)
    \/ \E id \in 1..MaxIosys, maps \in [World -> ZeroBasedMaps],
          rearr \in RearrangerArgs, ioregion \in BOOLEAN :
          init_decomp(id, <<4>>, maps, rearr, ioregion)
    \/ \E id \in 1..MaxIosys, maps \in [World -> OneBasedMaps],
          rearr \in RearrangerArgs, ioregion \in BOOLEAN :
          InitDecomp(id, <<4>>, maps, rearr, ioregion)

\* arguments of the frame calls: file 1 or 2, variable 1, 2 or the unknown 3
ArgNcids == 1..MaxFiles
ArgVarids == 1..(NumVars + 1)
ArgFrames == {0, 2}

\* SpecFrame: one iosystem, its files, and the record of their variables
FrameNext ==
    \/ /\ IosysIds = {}
       /\ Init_Intracomm(<<0, 1>>, 1, 1, 0, PIO_REARR_BOX)
    \/ /\ IosysIds = {}
       /\ init_async(<<0>>, <<<<1, 2>>>>, PIO_REARR_BOX)
    \/ \E id \in 1..MaxIosys : openfile(id)
    \/ \E r \in ErrCallers, ncid \in ArgNcids, varid \in ArgVarids, f \in ArgFrames :
          /\ \A q \in World : mpi_sends[q] < MaxFrameCalls
          /\ setframe(r, ncid, varid, f)
    \/ \E r \in ErrCallers, ncid \in ArgNcids, varid \in ArgVarids :
          /\ \A q \in World : mpi_sends[q] < MaxFrameCalls
          /\ advanceframe(r, ncid, varid)

\* SpecBuf: one file, its variables written through two decompositions
BufNext ==
    \/ /\ IosysIds = {}
       /\ Init_Intracomm(<<0, 1>>, 1, 1, 0, PIO_REARR_BOX)
    \/ \E id \in 1..MaxIosys :
          /\ \A n \in 1..MaxFiles : ~file_list[BufRank][n].open
          /\ openfile(id)
    \/ \E ncid \in ArgNcids, varid \in 1..NumVars :
          /\ file_list[BufRank][ncid].open
          /\ file_list[BufRank][ncid].varlist[varid].record < 1
          /\ advanceframe(BufRank, ncid, varid)
    \/ \E ncid \in ArgNcids, varid \in 1..NumVars, ioid \in BufIoids,
          flushtodisk \in BOOLEAN :
          put_darray(ncid, varid, ioid, flushtodisk)
    \/ \E ncid \in ArgNcids, ioid \in BufIoids : flush_buffer(ncid, ioid)

\* arguments of PIOc_InitDecomp_bc: a 2 x 3 array or one with a dimension of
\* length 0; blocks inside the array and blocks that are not
BcGdimlens == {<<2, 3>>, <<0, 3>>}
BcArgs ==
    {[start |-> <<1, 1>>, count |-> <<1, 2>>],
     [start |-> <<0, 1>>, count |-> <<2, 2>>],
     [start |-> <<0, 2>>, count |-> <<1, 2>>],
     [start |-> <<-1, 0>>, count |-> <<1, 1>>],
     [start |-> <<0, 0>>, count |-> <<-1, 1>>]}

\* SpecBc: one iosystem, decompositions made from blocks
BcNext ==
    \/ \E comp_comm \in {<<0, 1>>, <<0, 1, 2>>}, rearr \in Rearrangers :
          /\ IosysIds = {}
          /\ Init_Intracomm(comp_comm, 1, 1, 0, rearr)
    \/ \E rearr \in Rearrangers :
          /\ IosysIds = {}
          /\ init_async(<<0>>, <<<<1, 2>>>>, rearr)
    \/ \E id \in 1..MaxIosys, g \in BcGdimlens, args \in [World -> BcArgs] :
          InitDecomp_bc(id, g, args)
    \/ \E r \in ErrCallers, id \in 1..MaxIosys, g \in BcGdimlens, a \in BcArgs :
          InitDecomp_bc_invalid(r, id, g, a.start, a.count)

(***************************************************************************)
(* The arrays PIOc_InitDecomp reaches on one rank: the caller's compmap,   *)
(* the descriptor's map and the scratch copy given to the duplicate check  *)
(***************************************************************************)
\* the array handed to run_unique_check (pioc.c 672): the scratch copy
unique_check_arg_compmap == "compmap"

unique_check_arg == "tmpmap"

\* the array run_unique_check was given may hold any contents afterwards
unique_check_scratch(mem, arg) ==
    {[mem EXCEPT ![arg] = m] : m \in [1..Len(mem[arg]) -> 0..MaxOff]}

\* the rank's view of the iosystem and the rearranger of the decomposition
DecompCalls ==
    {c \in [async : BOOLEAN, ioproc : BOOLEAN, compproc : BOOLEAN,
            rearranger : Rearrangers] :
        IF c.async THEN c.ioproc # c.compproc ELSE c.compproc}

\* one rank runs PIOc_InitDecomp on its compmap.  The parameter broadcast of
\* a computational rank of an async iosystem (541-570) sends from compmap or
\* takes no part (root MPI_ROOT or MPI_PROC_NULL), the map copy (597-644)
\* reads compmap, and under Subset a computational rank copies compmap into
\* tmpmap and runs the duplicate check on the copy (664-674).
InitDecomp_memory(c) ==
    /\ s_pc = "call"
    /\ \E d \in MapCopyOutcomes(s_compmap) :
       \E mem \in (IF c.rearranger = PIO_REARR_SUBSET /\ c.compproc
                   THEN unique_check_scratch([compmap |-> s_compmap,
                                          tmpmap |-> s_compmap],
                                         unique_check_arg)
                   ELSE {[compmap |-> s_compmap, tmpmap |-> <<>>]}) :
          /\ s_compmap' = mem.compmap
          /\ s_iodesc' = [desc |-> d, call |-> c, given |-> s_compmap,
                          tmpmap |-> mem.tmpmap]
    /\ s_pc' = "done"
    /\ UNCHANGED <<mainVars, asyncVars, fileVars>>

MemoryNext == \E c \in DecompCalls : InitDecomp_memory(c)

\* SpecExit: an async run with one or two components, or a sync iosystem;
\* the processes ask about and free the iosystems, also those of the other
\* component and those freed before
ExitNext ==
    \/ \E procs \in {<<<<1, 2>>>>, <<<<1>>, <<2>>>>} :
          /\ IosysIds = {}
          /\ init_async(<<0>>, procs, PIO_REARR_BOX)
    \/ /\ IosysIds = {}
       /\ Init_Intracomm(<<1, 2>>, 1, 1, 0, PIO_REARR_BOX)
    \/ \E r \in World, id \in 1..MaxIosys : free_iosystem(r, id)
    \/ \E r \in World, id \in 1..MaxIosys : iosystem_is_active(r, id)

SortIdle ==
    /\ s_compmap = <<>>
    /\ s_iodesc = NoDesc
    /\ s_pc = "off"

\* every process before its first call, no map copy under way
Init == MainInit /\ SortIdle /\ AsyncInit /\ FileInit

Spec == Init /\ [][Next]_vars

SpecDesc == Init /\ [][DescNext]_vars

SpecAsync == Init /\ [][AsyncNext]_vars

SpecFail == Init /\ [][FailNext]_vars

SpecArgs == Init /\ [][ArgsNext]_vars

SpecCheck == Init /\ [][CheckNext]_vars

SpecErr == Init /\ [][ErrNext]_vars

SpecLife == Init /\ [][LifeNext]_vars

SpecExit == Init /\ [][ExitNext]_vars

SpecHandlers == Init /\ [][HandlersNext]_vars

SpecMap == Init /\ [][MapNext]_vars

SpecBc == Init /\ [][BcNext]_vars

SpecFrame == Init /\ [][FrameNext]_vars

SpecBuf == Init /\ [][BufNext]_vars

\* SpecSort: one process with any compmap runs the map copy
InitSort == MainInit /\ SortInit /\ AsyncInit /\ FileInit

SortNext == CopyMap

SpecSort == InitSort /\ [][SortNext]_vars

\* SpecMemory: one process with any compmap runs PIOc_InitDecomp
SpecMemory == InitSort /\ [][MemoryNext]_vars

(***************************************************************************)
(* Properties of decomposition ids and descriptors                         *)
(***************************************************************************)
\* the descriptors a rank holds
DescsOf(r) == Range(iodesc_list[r])

\* the descriptor rank r holds for the decomposition made by collective call k
HoldsCall(r, k) == \E d \in DescsOf(r) : d.call = k

DescOfCall(r, k) == CHOOSE d \in DescsOf(r) : d.call = k

\* C1: every rank of the iosystem a decomposition was created on holds the
\* same ioid for it, whatever iosystems (sync or async, with partly
\* overlapping rank sets) were used before.
C1_IoidAgreement ==
    \A k \in 1..ncalls : \A r1, r2 \in World :
        (HoldsCall(r1, k) /\ HoldsCall(r2, k)) =>
            DescOfCall(r1, k).ioid = DescOfCall(r2, k).ioid

\* C2: on every rank the ioids of successive successful init_decomp calls
\* are taken from 512 upwards and are strictly increasing, so no two
\* descriptors of a rank share an ioid, also on a rank that is in a sync and
\* in an async iosystem.
C2_IoidIncreasing ==
    \A r \in World :
        /\ \A i \in 1..Len(iodesc_list[r]) :
              iodesc_list[r][i].ioid >= pio_next_ioid_init
        /\ \A i \in 2..Len(iodesc_list[r]) :
              iodesc_list[r][i - 1].ioid < iodesc_list[r][i].ioid

\* C5: a decomposition is read_only exactly when the map of some rank of the
\* computational side has two equal nonzero entries, under Box and Subset.
C5_ReadOnlyIffDuplicate ==
    \A r \in World : \A d \in DescsOf(r) :
        d.readonly <=>
            \E r2 \in Range(comms[d.iosysid].comp) :
                HoldsCall(r2, d.call) /\ HasDuplicate(DescOfCall(r2, d.call).map)

\* C6: every rank of the owning iosystem, computational and I/O alike,
\* holds the same ndims, dimlen, rearranger and read_only for a
\* decomposition.
C6_DescriptorAgreement ==
    \A k \in 1..ncalls : \A r1, r2 \in World :
        (HoldsCall(r1, k) /\ HoldsCall(r2, k)) =>
            LET d1 == DescOfCall(r1, k)
                d2 == DescOfCall(r2, k)
            IN /\ d1.ndims = d2.ndims
               /\ d1.dimlen = d2.dimlen
               /\ d1.rearranger = d2.rearranger
               /\ d1.readonly = d2.readonly

(***************************************************************************)
(* Properties of the async protocol                                        *)
(***************************************************************************)
\* the tags of the calls of component c, in the order the component makes them
TagsOf(c) == [k \in 1..Len(prog[c]) |-> prog[c][k].tag]

IsPrefix(s, t) == Len(s) <= Len(t) /\ \A k \in 1..Len(s) : s[k] = t[k]

Last(s) == s[Len(s)]

\* the calls comp rank p of component c has entered
Entered(c, p) == c_done[c][p] + (IF c_pc[c][p] = "errbcast" THEN 1 ELSE 0)

\* C7: for each component only the comp master sends tags, one per
\* collective call and in the order of the calls; no computational process
\* is in or past a call the component has not made; the dispatcher receives
\* and every I/O process executes the component's tags in the order the
\* master sent them, so Exit comes after every earlier tag of the component,
\* also while another component is sending.
C7_TagOrder ==
    \A c \in Comps :
        /\ Len(sent[c]) = Entered(c, 0)
        /\ \A k \in 1..Len(sent[c]) :
              sent[c][k] = <<0, prog[c][k].tag>>
        /\ \A p \in CompRanks : Entered(c, p) <= Len(prog[c])
        /\ IsPrefix(recvd[c], [k \in 1..Len(sent[c]) |-> sent[c][k][2]])
        /\ \A i \in IoRanks :
              /\ IsPrefix(exec[i][c], recvd[c])
              /\ \A k \in 1..Len(exec[i][c]) :
                    exec[i][c][k] = "EXIT" => k = Len(prog[c])

\* an I/O process has executed tags of both components, two of them of
\* component 1 with Exit last, while component 2 had sent its own
C7_Witness ==
    \E i \in IoRanks :
        /\ Len(exec[i][1]) = 2
        /\ Last(exec[i][1]) = "EXIT"
        /\ Len(exec[i][2]) >= 1
        /\ Len(sent[2]) = 2

C9_SetframeRecord ==
    /\ \A c \in Comps, p \in CompRanks :
          (c_done[c][p] >= 1 /\ prog[c][c_done[c][p]].tag = "SETFRAME") =>
              /\ c_record[c][p] = prog[c][c_done[c][p]].arg
              /\ c_ret[c][p] = PIO_NOERR
    /\ \A i \in IoRanks, c \in Comps :
          (exec[i][c] # <<>> /\ Last(exec[i][c]) = "SETFRAME") =>
              h_record[i][c] = prog[c][Len(exec[i][c])].arg

\* component 1 advanced the frame and then set it; the setframe is complete
\* on every computational and every I/O process
C9_Witness ==
    /\ TagsOf(1) = <<"ADVANCEFRAME", "SETFRAME">>
    /\ \A p \in CompRanks : c_done[1][p] = 2 /\ c_record[1][p] = prog[1][2].arg
    /\ \A i \in IoRanks : Len(exec[i][1]) = 2 /\ h_record[i][1] = prog[1][2].arg

LastDesc(l) == l[Len(l)]

\* C11: a PIOc_InitDecomp call on an async iosystem with an explicit
\* rearranger other than the iosystem's default returns PIO_EBADREARR on
\* every rank of the iosystem, registers no descriptor and uses no ioid; any
\* other call stores the explicit rearranger, or the iosystem default when
\* none is given, in the new descriptor and leaves the iosystem's default
\* as it was.
C11_RearrangerChoice ==
    [][\A id \in 1..MaxIosys, rearr \in RearrangerArgs, ioregion \in BOOLEAN :
          InitDecomp(id, <<4>>, [r \in World |-> <<1, 2>>], rearr, ioregion) =>
             LET c == comms[id]
                 dflt == iosystem_list[c.my_comm[1]][id].default_rearranger
             IN IF c.async /\ rearr # 0 /\ rearr # dflt
                THEN /\ \A r \in Range(c.my_comm) : ret'[r] = PIO_EBADREARR
                     /\ iodesc_list' = iodesc_list
                     /\ pio_next_ioid' = pio_next_ioid
                ELSE /\ \A r \in Range(c.my_comm) :
                           /\ ret'[r] = PIO_NOERR
                           /\ Len(iodesc_list'[r]) = Len(iodesc_list[r]) + 1
                           /\ LastDesc(iodesc_list'[r]).rearranger =
                                 (IF rearr = 0 THEN dflt ELSE rearr)
                     /\ iosystem_list' = iosystem_list]_vars

\* a rank got PIO_EBADREARR from its last call, and some rank holds a
\* descriptor of a sync iosystem whose rearranger is not the iosystem default
C11_Witness ==
    /\ \E r \in World : ret[r] = PIO_EBADREARR
    /\ \E r \in World : \E d \in DescsOf(r) :
          /\ ~comms[d.iosysid].async
          /\ d.rearranger # iosystem_list[r][d.iosysid].default_rearranger

\* C12: every registered decomposition has the rearranger Box or Subset;
\* a PIOc_InitDecomp given any other value, directly or through the
\* iosystem default, registers nothing and returns PIO_EBADREARR.
C12_RearrangerValid ==
    \A r \in World : \A i \in 1..Len(iodesc_list[r]) :
        iodesc_list[r][i].rearranger \in {PIO_REARR_BOX, PIO_REARR_SUBSET}

\* arguments of PIOc_InitDecomp on process r that its local validation
\* refuses, and the code it answers with
C13_Refused(r, id, g, present) ==
    \/ id \notin 1..Len(iosystem_list[r])
    \/ ~iosystem_list[r][id].registered
    \/ present # AllPresent
    \/ \E i \in 1..Len(g) : g[i] <= 0

C13_Code(r, id) ==
    IF id \in 1..Len(iosystem_list[r]) /\ iosystem_list[r][id].registered
    THEN PIO_EINVAL
    ELSE PIO_EBADID

C15_StrideRejected ==
    [][\A comp_comm \in SyncComms, n \in ArgIoTaskCounts, st \in ArgStrides,
          b \in ArgBases, rearr \in ArgRearrangers, iosysidp \in BOOLEAN :
          st <= 0 /\ PIOc_Init_Intracomm(comp_comm, n, st, b, rearr, iosysidp) =>
             /\ \A r \in Range(comp_comm) : ret'[r] # PIO_NOERR
             /\ iosystem_list' = iosystem_list]_vars

\* the iosystems registered on some process
RegisteredOn(r) == {id \in 1..Len(iosystem_list[r]) : iosystem_list[r][id].registered}

\* C16: num_uniontasks is num_comptasks on a sync iosystem and num_comptasks
\* + num_iotasks on an async one, and that many processes form the union;
\* on an async iosystem the I/O processes and the processes of the
\* component are disjoint and no process is both ioproc and compproc; on a
\* sync iosystem every process is compproc.
C16_UnionSize ==
    \A r \in World : \A id \in RegisteredOn(r) :
        LET ios == iosystem_list[r][id]
            c   == comms[id]
        IN /\ ios.num_comptasks = Cardinality(Range(c.comp))
           /\ ios.num_iotasks = Cardinality(Range(c.io))
           /\ ios.num_uniontasks = Cardinality(Range(c.my_comm))
           /\ ios.async =>
                 /\ ios.num_uniontasks = ios.num_comptasks + ios.num_iotasks
                 /\ Range(c.io) \cap Range(c.comp) = {}
                 /\ ~(ios.ioproc /\ ios.compproc)
           /\ ~ios.async =>
                 /\ ios.num_uniontasks = ios.num_comptasks
                 /\ ios.compproc

\* an async iosystem of two I/O processes given out of order and a sync
\* iosystem are both possible; here the async one
C16_Witness ==
    \E r \in World : \E id \in RegisteredOn(r) :
        /\ iosystem_list[r][id].async
        /\ comms[id].io = <<1, 0>>
        /\ iosystem_list[r][id].ioproc
        /\ iosystem_list[r][id].num_uniontasks = 3

\* the processes that hold MPI_ROOT as compmaster / as iomaster of an
\* iosystem
CompMasters(id) ==
    {r \in World : id \in RegisteredOn(r) /\ iosystem_list[r][id].compmaster = MPI_ROOT}

IoMasters(id) ==
    {r \in World : id \in RegisteredOn(r) /\ iosystem_list[r][id].iomaster = MPI_ROOT}

\* C17: in every iosystem exactly one process holds compmaster = MPI_ROOT
\* and exactly one holds iomaster = MPI_ROOT; on a sync iosystem they are
\* the same process exactly when the 0-th I/O rank is comp rank 0.
C17_OneMaster ==
    \A id \in IosysIds :
        /\ Cardinality(CompMasters(id)) = 1
        /\ Cardinality(IoMasters(id)) = 1
        /\ ~comms[id].async =>
              ((CompMasters(id) = IoMasters(id)) <=>
               (\A r \in Range(comms[id].my_comm) :
                    iosystem_list[r][id].ioranks[1] = 0))

\* a sync iosystem whose two masters are different processes
C17_Witness ==
    \E id \in IosysIds :
        /\ ~comms[id].async
        /\ CompMasters(id) # IoMasters(id)
        /\ \E r \in IoMasters(id) : iosystem_list[r][id].comp_rank = 1

\* C18: in the union comm of an async iosystem the I/O processes hold the
\* union ranks 0..num_iotasks-1 in the order of the I/O list and the
\* processes of the component the ranks from num_iotasks on in the order
\* of the component's list; ioranks[i] = i and compranks[p] = num_iotasks
\* + p; both sides create the intercomm with the same tag, the index of
\* the component.
C18_UnionOrder ==
    \A id \in IosysIds :
        comms[id].async =>
           LET c == comms[id]
               n == Len(c.io)
           IN /\ \A i \in 1..n : iosystem_list[c.io[i]][id].union_rank = i - 1
              /\ \A q \in 1..Len(c.comp) :
                    iosystem_list[c.comp[q]][id].union_rank = n + q - 1
              /\ \A r \in World :
                    /\ iosystem_list[r][id].ioranks = [i \in 1..n |-> i - 1]
                    /\ iosystem_list[r][id].compranks =
                          [q \in 1..Len(c.comp) |-> n + q - 1]
              /\ \A r \in Range(c.io) \cup Range(c.comp) :
                    iosystem_list[r][id].intercomm_tag = id - 1

\* the second component of an init whose lists are not in world rank
\* order: I/O process 1, components <<2>> and <<0>>
C18_Witness ==
    /\ 2 \in IosysIds
    /\ comms[2].async
    /\ comms[2].io = <<1>>
    /\ comms[2].comp = <<0>>
    /\ iosystem_list[1][2].union_rank = 0
    /\ iosystem_list[0][2].union_rank = 1
    /\ iosystem_list[0][2].intercomm_tag = 1
    /\ iosystem_list[1][2].intercomm_tag = 1

\* C19: every iosystem starts with comm_type = Coll, fcd = both
\* directions disabled, and in both directions hs = false, isend = false
\* and max_pend_req = PIO_REARR_COMM_UNLIMITED_PEND_REQ.
C19_RearrDefaults ==
    \A r \in World : \A id \in RegisteredOn(r) :
        LET o == iosystem_list[r][id].rearr_opts
        IN /\ o.comm_type = PIO_REARR_COMM_COLL
           /\ o.fcd = PIO_REARR_COMM_FC_2D_DISABLE
           /\ \A d \in {o.comp2io, o.io2comp} :
                 /\ d.hs = FALSE
                 /\ d.isend = FALSE
                 /\ d.max_pend_req = PIO_REARR_COMM_UNLIMITED_PEND_REQ

\* the three error handlers
ErrorHandlers == {PIO_INTERNAL_ERROR, PIO_BCAST_ERROR, PIO_RETURN_ERROR}

\* C20: the default error handler of a process and the handler of every
\* iosystem are InternalError, BcastError or ReturnError; the default is
\* InternalError until PIOc_set_iosystem_error_handling(PIO_DEFAULT, ..)
\* changes it; a new iosystem takes the default its process has at the
\* init; PIOc_set_iosystem_error_handling with any other method returns an
\* error, and PIOc_Set_File_Error_Handling aborts, and neither changes a
\* handler.
C20_ErrorHandlers ==
    /\ \A r \in World : default_error_handler[r] = PIO_INTERNAL_ERROR
    /\ [](\A r \in World :
            /\ default_error_handler[r] \in ErrorHandlers
            /\ \A id \in RegisteredOn(r) :
                  iosystem_list[r][id].error_handler \in ErrorHandlers)
    /\ [][/\ \A r \in World :
              /\ default_error_handler'[r] # default_error_handler[r] =>
                    \E method \in ErrorHandlers :
                       /\ set_iosystem_error_handling(r, PIO_DEFAULT, method)
                       /\ default_error_handler'[r] = method
              /\ \A id \in 1..Len(iosystem_list'[r]) :
                    id > Len(iosystem_list[r]) /\ iosystem_list'[r][id].registered =>
                       iosystem_list'[r][id].error_handler = default_error_handler[r]
          /\ \A r \in ErrCallers, id \in {PIO_DEFAULT} \cup (1..MaxIosys),
                method \in ArgMethods \ ErrorHandlers :
                /\ set_iosystem_error_handling(r, id, method) =>
                      /\ ret'[r] \in {PIO_EINVAL, PIO_EBADID}
                      /\ default_error_handler' = default_error_handler
                      /\ iosystem_list' = iosystem_list
                /\ \A found \in BOOLEAN :
                      id # PIO_DEFAULT /\ Set_File_Error_Handling(r, found, id, method) =>
                         /\ aborted'[r]
                         /\ default_error_handler' = default_error_handler
                         /\ iosystem_list' = iosystem_list]_vars

\* an iosystem made after the default was changed holds the changed
\* default on one process; its process saw a method refused, and another
\* process still has the first default
C20_Witness ==
    \E r \in World : \E id \in RegisteredOn(r) :
        /\ default_error_handler[r] = PIO_RETURN_ERROR
        /\ iosystem_list[r][id].error_handler = PIO_BCAST_ERROR
        /\ ret[r] = PIO_EINVAL
        /\ \E q \in World : default_error_handler[q] = PIO_INTERNAL_ERROR

\* C21: an operation handed an id that names nothing (iosystem queries,
\* free_iosystem, get_local_array_size) gives PIO_EBADID back to its
\* caller; it aborts no process and changes no state.
C21_UnknownIdBadId ==
    [][/\ \A r \in ErrCallers, id \in 1..MaxIosys :
            (/\ ~pio_get_iosystem_from_id(r, id).registered
             /\ \/ iosystem_is_active(r, id)
                \/ get_numiotasks(r, id)
                \/ iam_iotask(r, id)
                \/ iotask_rank(r, id)
                \/ free_iosystem(r, id))
            => /\ ret'[r] = PIO_EBADID
               /\ UNCHANGED <<iosystem_list, iodesc_list, default_error_handler,
                              mpi_sends, aborted>>
       /\ \A r \in ErrCallers, ioid \in ArgIoids :
            (/\ pio_get_iodesc_from_id(r, ioid) = {}
             /\ get_local_array_size(r, ioid))
            => /\ ret'[r] = PIO_EBADID
               /\ UNCHANGED <<iosystem_list, iodesc_list, default_error_handler,
                              mpi_sends, aborted>>]_vars

\* C22: a decomposition made from a map with a repeated nonzero offset is
\* marked read_only on the rank that handed in the map, so that writes
\* through it are refused.
C22_RepeatedOffsetReadOnly ==
    \A r \in World : \A d \in Range(iodesc_list[r]) :
        HasDuplicate(d.map) => d.readonly

\* C23: on every process, the iosystem a live decomposition was made on
\* is still registered: free_iosystem never removes an iosystem that a
\* decomposition still refers to.
C23_DecompIosystemRegistered ==
    \A r \in World : \A d \in Range(iodesc_list[r]) :
        pio_get_iosystem_from_id(r, d.iosysid).registered

\* C24: the async init calls take only PIO_REARR_BOX as default
\* rearranger; a call with any other value creates no iosystem, so every
\* registered async iosystem has the box rearranger as its default.
C24_AsyncOnlyBox ==
    \A r \in World : \A id \in IosysIds :
        LET ios == pio_get_iosystem_from_id(r, id)
        IN (ios.registered /\ ios.async) =>
               ios.default_rearranger = PIO_REARR_BOX

\* C25: the iostart/iocount arrays handed to PIOc_InitDecomp are ignored
\* when the box rearranger builds the decomposition: no box descriptor
\* takes its first region from them.
C25_BoxIgnoresIostart ==
    \A r \in World : \A d \in Range(iodesc_list[r]) :
        d.rearranger = PIO_REARR_BOX => d.firstregion # "iostart"

OfEntry(log, ncid, ioid) ==
    LET Test(e) == e[1] = ncid /\ e[2] = ioid
    IN SelectSeq(log, Test)

\* the arrays entry (ncid, ioid) holds, in the order of its vid array
Buffered(ncid, ioid) ==
    [i \in 1..wmb[ncid][ioid].num_arrays |->
        <<ncid, ioid, wmb[ncid][ioid].vid[i], wmb[ncid][ioid].frame[i]>>]

\* C28: for every entry (file, ioid) the arrays written so far followed by
\* the arrays still buffered are the arrays appended, in the order they
\* were appended: a flush writes the buffered arrays in append order and
\* each of them once; and every flush leaves its entry with num_arrays = 0
\* and every other entry as it was.
C28_FlushInAppendOrder ==
    /\ [](\A ncid \in 1..MaxFiles, ioid \in BufIoids :
            OfEntry(written, ncid, ioid) \o Buffered(ncid, ioid) =
                OfEntry(appended, ncid, ioid))
    /\ [][\A ncid \in 1..MaxFiles, ioid \in BufIoids :
            (OfEntry(written', ncid, ioid) # OfEntry(written, ncid, ioid)) =>
               /\ wmb'[ncid][ioid].num_arrays = 0
               /\ \A n2 \in 1..MaxFiles, i2 \in BufIoids :
                     <<n2, i2>> # <<ncid, ioid>> => wmb'[n2][i2] = wmb[n2][i2]]_vars

\* two arrays of different variables went through entry (1, 512), both
\* are written and the entry is empty
C28_Witness ==
    /\ Len(written) = 2
    /\ Len(appended) = 2
    /\ written[1][3] # written[2][3]
    /\ OfEntry(written, 1, pio_next_ioid_init) = written
    /\ wmb[1][pio_next_ioid_init].num_arrays = 0

\* the record of variable varid of file ncid on process q
RecordOf(fl, q, ncid, varid) == fl[q][ncid].varlist[varid].record

\* a frame call on (ncid, varid) succeeded for process r with record val:
\* every process of the file's iosystem holds val, and no other variable of
\* any file changed on any process
FrameEffect(r, ncid, varid, val) ==
    /\ ret'[r] = PIO_NOERR
    /\ \A q \in Range(comms[file_list[r][ncid].iosysid].my_comm) :
          RecordOf(file_list', q, ncid, varid) = val
    /\ \A q \in World, n2 \in 1..MaxFiles :
          /\ file_list'[q][n2].open = file_list[q][n2].open
          /\ \A v2 \in DOMAIN file_list[q][n2].varlist :
                <<n2, v2>> # <<ncid, varid>> =>
                    RecordOf(file_list', q, n2, v2) = RecordOf(file_list, q, n2, v2)

\* a frame call of process r returned an error: no message was sent and no
\* record changed
FrameRefused(r) ==
    /\ ret'[r] # PIO_NOERR
    /\ mpi_sends' = mpi_sends
    /\ file_list' = file_list

\* C29: PIOc_advanceframe adds 1 to the record of exactly the variable it
\* names and PIOc_setframe sets it to the frame given (so setframe(f) and k
\* advanceframe calls leave f + k); no other variable and no other file
\* changes; with an unknown file or variable id the call returns an error
\* before any message is sent and every record stays as it was.
C29_FrameEffect ==
    [][\A r \in ErrCallers, ncid \in ArgNcids, varid \in ArgVarids :
          LET file == file_list[r][ncid]
              known == file.open /\ varid \in 1..NumVars
          IN /\ advanceframe(r, ncid, varid) =>
                  IF known
                  THEN FrameEffect(r, ncid, varid, file.varlist[varid].record + 1)
                  ELSE FrameRefused(r)
             /\ \A f \in ArgFrames :
                  setframe(r, ncid, varid, f) =>
                     IF known
                     THEN FrameEffect(r, ncid, varid, f)
                     ELSE FrameRefused(r)]_vars

\* variable 1 of file 1 is at record 3 (setframe(2) and one advanceframe,
\* or three advanceframe calls), with a second variable and a second file
\* open and still at record 0
C29_Witness ==
    /\ file_list[1][1].open /\ file_list[1][2].open
    /\ file_list[1][1].varlist[1].record = 3
    /\ file_list[1][1].varlist[2].record = 0
    /\ \A v \in 1..NumVars : file_list[1][2].varlist[v].record = 0
    /\ ret[1] = PIO_NOERR

\* C30: a successful PIOc_set_iosystem_error_handling(id, m, &old) stores
\* in old the handler in force just before the call and makes m the
\* handler.  With PIO_DEFAULT it changes the library default of the calling
\* process only, which an iosystem initialised afterwards takes over, and
\* no existing iosystem; with an iosystem id it leaves the library default
\* and every other iosystem as they were.
C30_OldAndNewHandler ==
    [][/\ \A r \in ErrCallers, m \in ArgMethods :
            (ret'[r] = PIO_NOERR /\ set_iosystem_error_handling(r, PIO_DEFAULT, m)) =>
               /\ outp'[r] = default_error_handler[r]
               /\ default_error_handler' = [default_error_handler EXCEPT ![r] = m]
               /\ iosystem_list' = iosystem_list
       /\ \A r \in ErrCallers, id \in 1..MaxIosys, m \in ArgMethods :
            (ret'[r] = PIO_NOERR /\ set_iosystem_error_handling(r, id, m)) =>
               /\ outp'[r] = iosystem_list[r][id].error_handler
               /\ iosystem_list'[r][id].error_handler = m
               /\ default_error_handler' = default_error_handler
               /\ \A q \in World : \A id2 \in DOMAIN iosystem_list[q] :
                     id2 # id => iosystem_list'[q][id2] = iosystem_list[q][id2]
       /\ \A r \in World : \A id \in DOMAIN iosystem_list'[r] :
            (iosystem_list'[r][id].registered /\
             ~pio_get_iosystem_from_id(r, id).registered) =>
                iosystem_list'[r][id].error_handler = default_error_handler[r]]_vars

\* process 1 changed the handler of iosystem 1 from PIO_BCAST_ERROR to
\* PIO_RETURN_ERROR and received the old one, the library default and the
\* handler of its second iosystem being a third handler
C30_Witness ==
    /\ pio_get_iosystem_from_id(1, 1).registered
    /\ pio_get_iosystem_from_id(1, 2).registered
    /\ iosystem_list[1][2].error_handler = PIO_INTERNAL_ERROR
    /\ iosystem_list[1][1].error_handler = PIO_RETURN_ERROR
    /\ outp[1] = PIO_BCAST_ERROR
    /\ default_error_handler[1] = PIO_INTERNAL_ERROR
    /\ ret[1] = PIO_NOERR

(***************************************************************************)
(* Properties of PIOc_InitDecomp_bc                                        *)
(***************************************************************************)
\* the index tuples (0-based) of the block (start, count) of an array
BlockIndices(gdimlen, start, count) ==
    {idx \in [1..Len(gdimlen) -> 0..3] :
        \A n \in 1..Len(gdimlen) : start[n] <= idx[n] /\ idx[n] < start[n] + count[n]}

\* the 1-based row-major offset of an index tuple
RowMajorOffset(gdimlen, idx) ==
    LET h[k \in 0..Len(gdimlen)] ==
            IF k = 0 THEN 0 ELSE h[k - 1] * gdimlen[k] + idx[k]
    IN h[Len(gdimlen)] + 1

\* some dimension has gdimlen <= 0, start < 0, count < 0 or start + count >
\* gdimlen
BlockOutOfRange(gdimlen, start, count) ==
    \E n \in 1..Len(gdimlen) :
        gdimlen[n] <= 0 \/ start[n] < 0 \/ count[n] < 0 \/
        start[n] + count[n] > gdimlen[n]

\* C31: PIOc_InitDecomp_bc returns PIO_EINVAL exactly when some dimension
\* has gdimlen <= 0, start < 0, count < 0 or start + count > gdimlen;
\* otherwise the map of the decomposition a computational rank registers
\* has as many entries as the block has elements and lists, strictly
\* increasing, the 1-based row-major offsets of exactly the block's
\* elements: it needs no sort and has no duplicates.
C31_BlockMap ==
    [][/\ (ncalls' # ncalls) =>
            \A id \in 1..MaxIosys, g \in BcGdimlens, args \in [World -> BcArgs] :
               InitDecomp_bc(id, g, args) =>
                  \A r \in Range(comms[id].comp) :
                     /\ ~BlockOutOfRange(g, args[r].start, args[r].count)
                     /\ ret'[r] = PIO_NOERR =>
                          LET d == LastDesc(iodesc_list'[r])
                              blk == BlockIndices(g, args[r].start, args[r].count)
                          IN /\ Len(d.map) = Cardinality(blk)
                             /\ Range(d.map) = {RowMajorOffset(g, idx) : idx \in blk}
                             /\ \A i \in 2..Len(d.map) : d.map[i - 1] < d.map[i]
                             /\ ~d.needssort
       /\ (ncalls' = ncalls) =>
            \A r \in ErrCallers, id \in 1..MaxIosys, g \in BcGdimlens, a \in BcArgs :
               (/\ pio_get_iosystem_from_id(r, id).registered
                /\ InitDecomp_bc_invalid(r, id, g, a.start, a.count)) =>
                  /\ BlockOutOfRange(g, a.start, a.count)
                  /\ ret'[r] = PIO_EINVAL]_vars

\* a rank holds the decomposition of the block start (0, 1), count (2, 2)
\* of the 2 x 3 array: offsets 2, 3, 5, 6
C31_Witness ==
    \E r \in World : \E d \in Range(iodesc_list[r]) :
        d.map = <<2, 3, 5, 6>> /\ ~d.needssort

\* C32: a PIOc_InitDecomp_bc call with valid gdimlen, start and count
\* returns PIO_NOERR and registers a decomposition on every rank of the
\* iosystem, sync or async, whatever the iosystem's default rearranger.
C32_BlockDecompRegistered ==
    [][(ncalls' # ncalls) =>
          \A id \in 1..MaxIosys, g \in BcGdimlens, args \in [World -> BcArgs] :
             InitDecomp_bc(id, g, args) =>
                \A r \in Range(comms[id].my_comm) :
                   /\ ret'[r] = PIO_NOERR
                   /\ Len(iodesc_list'[r]) = Len(iodesc_list[r]) + 1]_vars

(***************************************************************************)
(* Properties of the arrays of PIOc_InitDecomp                             *)
(***************************************************************************)
\* C33: the call leaves the caller's compmap element for element as it was
\* given, on a computational and on an I/O rank, sync and async, under both
\* rearrangers; the descriptor's map is an array of its own and the
\* duplicate check works on a scratch copy.
C33_CompmapUntouched ==
    [][s_pc' = "done" =>
          /\ s_compmap' = s_compmap
          /\ s_iodesc'.given = s_compmap
          /\ Len(s_iodesc'.desc.map) = Len(s_compmap)]_vars

\* the duplicate check changed its scratch copy and the map was sorted
C33_Witness ==
    /\ s_pc = "done"
    /\ s_iodesc.call.async
    /\ s_iodesc.call.rearranger = PIO_REARR_SUBSET
    /\ s_iodesc.tmpmap # s_compmap
    /\ s_iodesc.desc.map # s_compmap
    /\ s_compmap = s_iodesc.given

\* number of entries of s equal to v
Count(s, v) == Cardinality({k \in 1..Len(s) : s[k] = v})

\* C34: when needs_sort is set, remap takes every slot 0..maplen-1 exactly
\* once, and map' has as many zero entries and as many entries of each
\* nonzero offset as compmap.
C34_RemapBijection ==
    (s_pc = "done" /\ s_iodesc.needssort) =>
        /\ Len(s_iodesc.remap) = Len(s_compmap)
        /\ \A k \in 1..Len(s_compmap) :
              s_iodesc.remap[k] \in 0..(Len(s_compmap) - 1)
        /\ \A i, j \in 1..Len(s_compmap) :
              i # j => s_iodesc.remap[i] # s_iodesc.remap[j]
        /\ \A v \in 0..MaxOff :
              Count(s_iodesc.map, v) = Count(s_compmap, v)

\* a sorted map with a zero entry and a repeated nonzero offset
C34_Witness ==
    /\ s_pc = "done"
    /\ s_iodesc.needssort
    /\ Count(s_compmap, 0) = 1
    /\ \E v \in 1..MaxOff : Count(s_iodesc.map, v) = 2
    /\ s_iodesc.remap # <<0, 1, 2, 3>>

(***************************************************************************)
(* Properties of the I/O ranks and the roots of an iosystem                *)
(***************************************************************************)
\* C35: whenever num_iotasks, stride and base pass the check of
\* PIOc_Init_Intracomm, the computed ioranks are pairwise distinct ranks of
\* comp_comm, and the call ends with an I/O comm of num_iotasks members.
C35_IoRanksDistinct ==
    [][\A comp_comm \in SyncComms, n \in ArgIoTaskCounts, st \in ArgStrides,
          b \in ArgBases, rearr \in ArgRearrangers :
          (/\ Init_Intracomm_valid(n, st, Len(comp_comm))
           /\ PIOc_Init_Intracomm(comp_comm, n, st, b, rearr, TRUE)) =>
             /\ MPI_Group_incl_ok(SyncIoRanks(n, st, b, Len(comp_comm)),
                                  Len(comp_comm))
             /\ Len(comms') = Len(comms) + 1
             /\ Cardinality(Range(comms'[Len(comms')].io)) = n]_vars

\* C36: on every iosystem the process with the comp master role is the one
\* whose rank in the union comm is comproot, the process with the io master
\* role is the one whose rank in the union comm is ioroot, and all the
\* processes of the iosystem hold the same comproot and the same ioroot.
C36_RootsAreMasters ==
    \A id \in IosysIds : \A r \in Range(comms[id].my_comm) :
        LET ios == iosystem_list[r][id]
        IN /\ (ios.compmaster = MPI_ROOT) <=> (ios.union_rank = ios.comproot)
           /\ (ios.iomaster = MPI_ROOT) <=> (ios.union_rank = ios.ioroot)
           /\ \A r2 \in Range(comms[id].my_comm) :
                 /\ iosystem_list[r2][id].comproot = ios.comproot
                 /\ iosystem_list[r2][id].ioroot = ios.ioroot

\* an async iosystem with two I/O processes: its computation leader has
\* union rank 2 and its I/O leader, world rank 1, union rank 0
C36_Witness ==
    \E id \in IosysIds : \E r \in Range(comms[id].my_comm) :
        /\ comms[id].async
        /\ iosystem_list[r][id].compmaster = MPI_ROOT
        /\ iosystem_list[r][id].comproot = 2
        /\ iosystem_list[r][id].union_rank = 2
        /\ iosystem_list[1][id].iomaster = MPI_ROOT
        /\ iosystem_list[1][id].union_rank = 0

(***************************************************************************)
(* Properties of a failing tag send or parameter broadcast                 *)
(***************************************************************************)
\* C37: a computational process whose tag send or parameter broadcast
\* failed returns a failure from that call and does not apply it: its
\* record stays as it was.  (The claim asks this of every process of
\* my_comm; the process that saw the failure is the first of them.)
C37_FailureStopsCall ==
    [][\A c \in Comps, p \in CompRanks :
          (c_pc[c][p] = "errbcast" /\ c_pc'[c][p] = "idle" /\ c_mpierr[c][p] # 0) =>
             /\ c_ret'[c][p] # PIO_NOERR
             /\ c_record'[c][p] = c_record[c][p]]_vars

IsRegistered(list, id) == id \in 1..Len(list) /\ list[id].registered

\* the async iosystems a process led and has freed
ExitedAsLeader(lists, q) ==
    {id \in IosysIds : /\ comms[id].async
                       /\ comms[id].comp[1] = q
                       /\ ~IsRegistered(lists[q], id)}

\* C39: PIOc_free_iosystem of an id that is not registered returns
\* PIO_EBADID and changes nothing; a free that succeeds leaves the id
\* unregistered, so that PIOc_iosystem_is_active stores false and another
\* free returns PIO_EBADID; PIO_MSG_EXIT is sent only by the comp master of
\* an async iosystem whose union comm the process is in, and at most once
\* for each component.
C39_FreeOnce ==
    [][/\ \A r \in World, id \in 1..MaxIosys :
            /\ (~IsRegistered(iosystem_list[r], id) /\ free_iosystem(r, id)) =>
                  /\ ret'[r] = PIO_EBADID
                  /\ UNCHANGED <<iosystem_list, comms, iodesc_list, mpi_sends,
                                 pio_next_ioid, outp>>
            /\ (IsRegistered(iosystem_list[r], id) /\ free_iosystem(r, id)) =>
                  /\ ret'[r] = PIO_NOERR
                  /\ ~IsRegistered(iosystem_list'[r], id)
                  /\ \A q \in World :
                        mpi_sends'[q] # mpi_sends[q] =>
                           /\ mpi_sends'[q] = mpi_sends[q] + 1
                           /\ iosystem_list[q][id].async
                           /\ iosystem_list[q][id].in_union
                           /\ iosystem_list[q][id].compmaster = MPI_ROOT
                           /\ ~IsRegistered(iosystem_list'[q], id)
            /\ (~IsRegistered(iosystem_list[r], id) /\ iosystem_is_active(r, id)) =>
                  outp'[r] = 0
       /\ \A q \in World :
            mpi_sends'[q] <= Cardinality(ExitedAsLeader(iosystem_list', q))]_vars

\* both components of an async run were freed, each leader sent one
\* PIO_MSG_EXIT, and a process that freed the other component's iosystem
\* and then its own once more got PIO_EBADID
C39_Witness ==
    /\ Cardinality(IosysIds) = 2
    /\ \A id \in IosysIds : comms[id].async
    /\ \A r \in World : \A id \in IosysIds : ~iosystem_list[r][id].registered
    /\ mpi_sends[1] = 1
    /\ mpi_sends[2] = 1
    /\ ret[1] = PIO_EBADID
    /\ outp[2] = 0

====
